---- MODULE Spec2Model ----
(***************************************************************************)
(* Verification model of the OpenTier intelligence service                 *)
(* (src/server/intelligence): the streaming query pipeline, the chat       *)
(* session, and the ingestion pipeline with its job records.               *)
(*                                                                         *)
(* Specifications                                                          *)
(*   SpecStream  QueryPipeline.stream_response driving LLMClient.stream    *)
(*   SpecChat    ChatService.send_message and ConversationStorage          *)
(*   Spec        DocumentProcessor.process_batch with concurrent           *)
(*               IntelligenceEngine.cancel_ingestion calls                 *)
(*   SpecBatch   process_batch alone                                       *)
(*   SpecJob     JobStorage driven directly                                *)
(*   SpecResource  ResourceService over the documents table                *)
(*   SpecStreamChat  ChatService.StreamChat over stream_chat and the       *)
(*               query pipeline                                            *)
(*   SpecMemory  the memory steps of send_message over user_memories       *)
(*   SpecChunker TextChunker.chunk on one text                             *)
(*   SpecUpload  ResourceService.ChunkedUpload on one stream of frames     *)
(***************************************************************************)
EXTENDS Integers, Sequences, FiniteSets, TLC

VARIABLES
    \* ---- QueryPipeline.stream_response (one generator object) ----
    sPc,          \* position of the generator: idle/retrieve/stream/done/raised
    use_rag,      \* argument use_rag
    is_mock,      \* LLMClient.is_mock
    events,       \* the event types yielded so far, in order
    token_count,  \* local token_count
    sources,      \* len(sources) of the emitted sources event
    lines,        \* lines of the upstream HTTP body read so far
    llm_failed,   \* the upstream LLM call raised during this execution
    llm_error,    \* the keywords occurring in the message of that exception
    \* ---- ChatService.send_message over the conversations/chat_messages tables ----
    clock,        \* database clock: the value now() has in the current transaction
    conversations,\* conversations table: conversation id -> owner, or NoUser
    messages,     \* chat_messages table, rows in insertion order
    chPc,         \* position of send_message: idle/conv/user_saved/generated/done/raised
    chUser,       \* argument user_id
    chArg,        \* argument conversation_id
    chConv,       \* conv.id of the resolved conversation
    chCreated,    \* the call created the conversation row itself
    chPrior,      \* number of rows in chat_messages when the call began
    chHistory,    \* local `history`: row numbers of the messages passed to the pipeline
    chResponse,   \* query_response.response: answer or the fallback apology
    lastRead,     \* row numbers returned by get_messages(conv.id) after the call
    \* ---- ingestion: ingestion_jobs and documents tables, process_batch, cancel ----
    jobs,         \* ingestion_jobs table: job id -> row
    documents,    \* documents table with each document's chunks
    bPc,          \* position of process_batch: idle/created/loop/done (api: direct JobStorage use)
    bUser,        \* argument user_id
    bDocs,        \* argument documents
    bJob,         \* job.id
    idx,          \* index of the next document of the for loop
    attempted,    \* indices of the documents process_document was called for, in order
    failedDocs,   \* indices of the documents whose process_document call raised
    cPc,          \* position of cancel_ingestion: idle/dirty/done
    cJob,         \* argument job_id
    cUser,        \* argument user_id
    cSeen,        \* job.status as get_job returned it
    cResult,      \* the (success, message) pair returned
    \* ---- ResourceService: ListResources and DeleteResource ----
    listed,       \* the last ListResources call: its user_id and the rows returned
    delResult,    \* the last DeleteResource call: its arguments and success
    \* ---- ChatService.StreamChat driving ChatService.stream_chat ----
    scPc,         \* position: idle/streaming/erroring/final/done/failed/ended/rejected
    scUser,       \* request.user_id
    scArg,        \* request.conversation_id
    scConv,       \* conv.id of the resolved conversation
    scCreated,    \* the call created the conversation row itself
    scPrior,      \* number of rows in chat_messages when the call began
    consumed,     \* number of pipeline events stream_chat has handled
    pending,      \* chunks stream_chat yields for the event in hand, not yet passed on
    out,          \* chunks StreamChat has sent to the client, in order
    full_response,\* local full_response: the tokens appended so far
    scExpired,    \* context.time_remaining() <= 0
    \* ---- user_memories table and the memory steps of send_message ----
    memories,     \* user_memories table: a set of rows (user_id, memory)
    memPc,        \* position of the turn: idle/read/done/raised
    memUser,      \* argument user_id
    user_memory,  \* local user_memory, as get_memory returned it
    llm_output,   \* what the extractor's LLM call returned (or that it raised)
    updated_memory, \* local updated_memory: what generate_memory_update returned
    turns,        \* number of send_message calls made so far
    \* ---- TextChunker.chunk (one call) ----
    tcPc,         \* position of chunk(): loop/done
    parts,        \* local parts: the paragraphs of the text, each a sequence of pieces
    chunk_size,   \* self.chunk_size
    chunk_overlap,\* self.chunk_overlap
    partIdx,      \* index of the next part of the for loop
    tcChunks,     \* local chunks: the TextChunk objects made so far
    current_chunk,\* local current_chunk, as the sequence of its pieces
    current_start,\* local current_start
    chunk_index,  \* local chunk_index
    \* ---- ResourceService.ChunkedUpload (one call) ----
    upPc,         \* position of ChunkedUpload: receiving/returned
    metadata,     \* local metadata: the ChunkMetadata of the first frame, or None
    chunks_received, \* local chunks_received
    total_bytes,  \* local total_bytes
    hasher,       \* local hasher: whether every byte hashed so far is a byte of the file
    upFrame,      \* the frame the loop body ran on in the last step, if it was a loop turn
    computed_checksum, \* local computed_checksum, "" before it is computed
    upExpired,    \* context.time_remaining() <= 0
    upCode,       \* the status code set on the context (OK when none was set)
    upAdded,      \* the call of engine.add_resource was reached
    \* -- a client reading a conversation page by page (get_conversation) --
    pgPc,         \* idle / paging (a next_cursor is in hand) / done / expired
    pgCode,       \* the status code GetConversation set on the context (OK when none)
    pgUser,       \* user_id of the calls
    pgConv,       \* conversation_id of the calls
    pgLimit,      \* limit of the calls
    pgAsked,      \* cursor of the last call
    pgPage,       \* the last response: messages (row numbers) and next_cursor
    pgVisited,    \* the messages of all pages so far, in the order received
    \* -- ResourceService.GetResourceStatus --
    stCall,       \* the last GetResourceStatus call: user_id, job_id, resource_id
    stResponse,   \* its ResourceStatusResponse, of status "none" before any call
    \* -- two chat turns of one user whose memory steps may overlap --
    ovPc,         \* per turn: idle / read (step 3.5 done) / done (step 8.5 done)
    ovRead,       \* per turn: local user_memory, the memory read in step 3.5
    ovExtracted,  \* per turn: the lines its extractor returned for storing
    ovForgot,     \* per turn: the extractor signalled FORGET_ALL
    ovBefore,     \* the lines of the user's memory before both turns
    ovOverlapped, \* a turn read the memory while the other was between its steps
    rtPc,         \* retry_async: "idle", "attempting", "returned", "raised"
    max_retries,  \* retry_async: its max_retries argument
    attempt,      \* retry_async: the loop variable
    last_exception, \* retry_async: the local of that name
    rtCalls,      \* how many times func has been invoked
    rtDelay,      \* the last backoff sleep, in tenths of a second
    rtOutcome,    \* what retry_async gave its caller
    cache,        \* EmbeddingModel._cache: query -> embedding
    eqPc,         \* per worker thread: where its encode_query call stands
    eqQuery,      \* per worker thread: the query of its call
    eqResult,     \* per worker thread: what its last call returned
    eqCalls,      \* how many encode_query calls have been started
    crPc,         \* WebCrawler.crawl: "idle", "crawling", "returned"
    crSettings,   \* WebCrawler: max_pages, max_depth, same_domain_only
    visited,      \* WebCrawler.visited
    discovered,   \* WebCrawler.discovered
    queue,        \* WebCrawler.queue: (url, depth) pairs
    pages,        \* crawl: the local list it returns
    requests      \* how many times client.get was called on each URL

streamVars == <<sPc, use_rag, is_mock, events, token_count, sources, lines,
                llm_failed, llm_error>>

chatVars == <<clock, conversations, messages, chPc, chUser, chArg, chConv, chCreated,
              chPrior, chHistory, chResponse, lastRead>>

batchVars == <<bPc, bUser, bDocs, bJob, idx, attempted, failedDocs>>

cancelVars == <<cPc, cJob, cUser, cSeen, cResult>>

ingestVars == <<jobs, documents, batchVars, cancelVars>>

resourceVars == <<listed, delResult>>

streamChatVars == <<scPc, scUser, scArg, scConv, scCreated, scPrior, consumed,
                    pending, out, full_response, scExpired>>

memoryVars == <<memories, memPc, memUser, user_memory, llm_output, updated_memory,
                turns>>

chunkerVars == <<tcPc, parts, chunk_size, chunk_overlap, partIdx, tcChunks,
                 current_chunk, current_start, chunk_index>>

uploadVars == <<upPc, metadata, chunks_received, total_bytes, hasher, upFrame,
                computed_checksum, upExpired, upCode, upAdded>>

pagesVars == <<pgPc, pgCode, pgUser, pgConv, pgLimit, pgAsked, pgPage, pgVisited>>

statusVars == <<stCall, stResponse>>

overlapVars == <<ovPc, ovRead, ovExtracted, ovForgot, ovBefore, ovOverlapped>>

crawlVars == <<crPc, crSettings, visited, discovered, queue, pages, requests>>

cacheVars == <<cache, eqPc, eqQuery, eqResult, eqCalls>>

retryVars == <<rtPc, max_retries, attempt, last_exception, rtCalls, rtDelay, rtOutcome>>

vars == <<streamVars, chatVars, ingestVars, resourceVars, streamChatVars, memoryVars,
          chunkerVars, uploadVars, pagesVars, statusVars, overlapVars, retryVars, cacheVars, crawlVars>>

\* Each specification moves one component and leaves the others alone.
StreamOnly ==
    UNCHANGED <<chatVars, ingestVars, resourceVars, streamChatVars, memoryVars,
                chunkerVars, uploadVars,
                pagesVars,
                statusVars,
                overlapVars,
                retryVars,
                cacheVars,
                crawlVars>>
ChatOnly ==
    UNCHANGED <<streamVars, ingestVars, resourceVars, streamChatVars, memoryVars,
                chunkerVars, uploadVars,
                pagesVars,
                statusVars,
                overlapVars,
                retryVars,
                cacheVars,
                crawlVars>>
IngestOnly ==
    UNCHANGED <<streamVars, chatVars, resourceVars, streamChatVars, memoryVars,
                chunkerVars, uploadVars,
                pagesVars,
                statusVars,
                overlapVars,
                retryVars,
                cacheVars,
                crawlVars>>
ResourceOnly ==
    UNCHANGED <<streamVars, chatVars, batchVars, cancelVars, streamChatVars,
                memoryVars, chunkerVars, uploadVars,
                pagesVars,
                statusVars,
                overlapVars,
                retryVars,
                cacheVars,
                crawlVars>>
StreamChatOnly ==
    UNCHANGED <<ingestVars, resourceVars, chPc, chUser, chArg, chConv,
                chCreated, chPrior, chHistory, chResponse, lastRead, memoryVars,
                chunkerVars, uploadVars,
                pagesVars,
                statusVars,
                overlapVars,
                retryVars,
                cacheVars,
                crawlVars>>
MemoryOnly ==
    UNCHANGED <<streamVars, chatVars, ingestVars, resourceVars, streamChatVars,
                chunkerVars, uploadVars,
                pagesVars,
                statusVars,
                overlapVars,
                retryVars,
                cacheVars,
                crawlVars>>
ChunkerOnly ==
    UNCHANGED <<streamVars, chatVars, ingestVars, resourceVars, streamChatVars,
                memoryVars, uploadVars,
                pagesVars,
                statusVars,
                overlapVars,
                retryVars,
                cacheVars,
                crawlVars>>
PagesOnly ==
    UNCHANGED <<streamVars, ingestVars, resourceVars, streamChatVars, memoryVars,
                chunkerVars, uploadVars, clock, conversations, messages, chPc,
                chUser, chArg, chConv, chCreated, chPrior, chHistory, chResponse,
                lastRead,
                statusVars,
                overlapVars,
                retryVars,
                cacheVars,
                crawlVars>>
StatusOnly ==
    UNCHANGED <<streamVars, chatVars, ingestVars, resourceVars, streamChatVars,
                memoryVars, chunkerVars, uploadVars, pagesVars,
                overlapVars,
                retryVars,
                cacheVars,
                crawlVars>>
OverlapOnly ==
    UNCHANGED <<streamVars, chatVars, ingestVars, resourceVars, streamChatVars,
                memPc, memUser, user_memory, llm_output, updated_memory, turns,
                chunkerVars, uploadVars, pagesVars, statusVars,
                retryVars,
                cacheVars,
                crawlVars>>
RetryOnly ==
    UNCHANGED <<streamVars, chatVars, ingestVars, resourceVars, streamChatVars,
                memoryVars, chunkerVars, uploadVars, pagesVars, statusVars,
                overlapVars,
                cacheVars,
                crawlVars>>
CacheOnly ==
    UNCHANGED <<streamVars, chatVars, ingestVars, resourceVars, streamChatVars,
                memoryVars, chunkerVars, uploadVars, pagesVars, statusVars,
                overlapVars, retryVars,
                crawlVars>>
CrawlOnly ==
    UNCHANGED <<streamVars, chatVars, ingestVars, resourceVars, streamChatVars,
                memoryVars, chunkerVars, uploadVars, pagesVars, statusVars,
                overlapVars, retryVars, cacheVars>>
UploadOnly ==
    UNCHANGED <<streamVars, chatVars, batchVars, cancelVars, resourceVars,
                streamChatVars, memoryVars, chunkerVars,
                pagesVars,
                statusVars,
                overlapVars,
                retryVars,
                cacheVars,
                crawlVars>>

\* ---- bounds ----
MaxLines == 3       \* most data lines the upstream LLM sends in one stream
MaxChunks == 2      \* most chunks retrieval returns (top_k of the model)

MaxCalls == 3       \* most send_message calls made in one behaviour
MaxDocs == 2        \* most documents in one batch
MaxChunksPerDoc == 2   \* most chunks the chunker makes of one document
MaxStored == 2      \* most rows of the documents table when the service starts
MaxApiCalls == 4    \* most increment_* calls when JobStorage is driven directly
MaxOutputLines == 2 \* most lines the memory extractor's LLM writes in one answer
MaxTurns == 3       \* most chat turns whose memory steps are followed
MaxParts == 3       \* most paragraphs of a text given to the chunker
MaxPieces == 2      \* most pieces (sentences and the rest) of one paragraph
MaxStoredTurns == 3 \* most chat turns stored when a client starts reading pages
MaxFrames == 105    \* most frames read from one upload stream

\* ---- program constants ----
MockWords == 3      \* len("Streaming mock response...".split())
GetMessagesLimit == 100   \* default limit of ConversationStorage.get_messages

Users == {"u1", "u2"}
NoUser == "none"
ConvIds == {"c1", "c2"}
NoConv == "none"
BadConvId == "not-a-uuid"  \* a conversation_id uuid.UUID cannot parse
BadUserId == "bad id!"     \* a user id validate_user_id rejects
JobIds == {"j1", "j2"}
NoJob == "none"
NoneInt == -1              \* None passed for an int | None parameter
NoneList == <<"None">>     \* None passed for a list | None parameter
EmptyUser == ""            \* user_id of a request that leaves the field unset
DefaultListLimit == 20     \* `request.limit or 20` in ListResources
MinChunkSize == 50         \* smallest chunk_size validate_chunk_params accepts
MaxChunkSize == 10000      \* largest chunk_size validate_chunk_params accepts
SeparatorLen == 2          \* len("\n\n"), the default separator
MAX_CHUNK_SIZE == 10485760          \* 10 * 1024 * 1024
MAX_CHUNKED_FILE_SIZE == 1073741824 \* 1024 * 1024 * 1024
DeadlineCheckEvery == 10   \* the deadline is checked when chunks_received % 10 == 0
NoneTime == "None"         \* None for a datetime | None value

--------------------------------------------------------------------------
(* Helpers on event sequences *)

Count(seq, x) == Cardinality({i \in 1..Len(seq) : seq[i] = x})

Last(seq) == seq[Len(seq)]

--------------------------------------------------------------------------
(* LLMClient.stream: what the async generator does with one upstream step. *)
(* up is what the HTTP stream produces next: a content delta, a line with  *)
(* no content, the [DONE] line (or end of body), or an exception           *)
(* (connect/status/read error).                                            *)
(* The result: how many strings are yielded and how the generator goes on. *)

LLMClientStream_reraise(up) ==
    CASE up = "delta"     -> [yields |-> 1, then |-> "more"]
      [] up = "empty"     -> [yields |-> 0, then |-> "more"]
      [] up = "done"      -> [yields |-> 0, then |-> "stop"]
      [] up = "exception" -> [yields |-> 0, then |-> "raise"]

LLMClientStream(up) ==
    CASE up = "delta"     -> [yields |-> 1, then |-> "more"]
      \* a line without content, or one that is not JSON: nothing is yielded
      [] up = "empty"     -> [yields |-> 0, then |-> "more"]
      [] up = "done"      -> [yields |-> 0, then |-> "stop"]
      \* except Exception: yield f"[Error: ...]" and fall off the end
      [] up = "exception" -> [yields |-> 1, then |-> "stop"]

\* Messages an exception of the upstream call can carry, each given by the
\* keywords that occur in it.
ErrorMessages ==
    {{"timeout"}, {"rate"}, {"context", "length"}, {"model", "unavailable"},
     {"invalid"}, {"connection"}, {"context"}, {"timeout", "invalid"}}

\* Upstream steps possible after n lines were read.  In mock mode the
\* generator yields the words of the mock text and returns.
Upstream(mock, n) ==
    IF mock
    THEN IF n < MockWords THEN {"delta"} ELSE {"done"}
    ELSE (IF n < MaxLines THEN {"delta", "empty"} ELSE {})
            \cup {"done", "exception"}

--------------------------------------------------------------------------
(* QueryPipeline.stream_response *)

\* The event yielded right after retrieval.
SourcesEvent_none(ev) == ev

SourcesEvent(ev) == Append(ev, "sources")

\* One turn of `async for token in self.llm_client.stream(messages)`,
\* with the except branch and the code after the loop.
ConsumeLLM(ev, r) ==
    LET toks == IF r.yields = 1 THEN Append(ev, "token") ELSE ev
    IN  CASE r.then = "more"  -> [events |-> toks, pc |-> "stream"]
          [] r.then = "stop"  -> [events |-> Append(toks, "metrics"), pc |-> "done"]
          [] r.then = "raise" -> [events |-> Append(toks, "error"), pc |-> "done"]

StreamInit ==
    /\ sPc = "idle"
    /\ use_rag = TRUE
    /\ is_mock = FALSE
    /\ events = <<>>
    /\ token_count = 0
    /\ sources = 0
    /\ lines = 0
    /\ llm_failed = FALSE
    /\ llm_error = {}

\* A caller creates the generator.
StreamCall ==
    /\ StreamOnly
    /\ sPc \in {"idle", "done", "raised"}
    /\ \E rag \in BOOLEAN, mock \in BOOLEAN :
          /\ use_rag' = rag
          /\ is_mock' = mock
    /\ sPc' = "retrieve"
    /\ events' = <<>>
    /\ token_count' = 0
    /\ sources' = 0
    /\ lines' = 0
    /\ llm_failed' = FALSE
    /\ llm_error' = {}

\* retrieve_context returns n chunks (or use_rag is false): the sources
\* event is yielded.
StreamRetrieved ==
    /\ StreamOnly
    /\ sPc = "retrieve"
    /\ \E n \in 0..MaxChunks :
          /\ (~use_rag) => n = 0
          /\ sources' = n
    /\ events' = SourcesEvent(events)
    /\ sPc' = "stream"
    /\ UNCHANGED <<use_rag, is_mock, token_count, lines, llm_failed, llm_error>>

\* retrieve_context raises (embedding or database error): it is called
\* outside any try, so the exception leaves the generator.
StreamRetrieveRaises ==
    /\ StreamOnly
    /\ sPc = "retrieve"
    /\ use_rag
    /\ sPc' = "raised"
    /\ UNCHANGED <<use_rag, is_mock, events, token_count, sources, lines,
                   llm_failed, llm_error>>

\* The loop over llm_client.stream advances by one upstream step.
StreamLLMStep ==
    /\ StreamOnly
    /\ sPc = "stream"
    /\ \E up \in Upstream(is_mock, lines) :
          LET r == LLMClientStream(up)
              c == ConsumeLLM(events, r)
          IN  /\ events' = c.events
              /\ sPc' = c.pc
              /\ token_count' = token_count + r.yields
              /\ lines' = IF up \in {"delta", "empty"} THEN lines + 1 ELSE lines
              /\ llm_failed' = (llm_failed \/ up = "exception")
              /\ IF up = "exception"
                 THEN \E msg \in ErrorMessages : llm_error' = msg
                 ELSE UNCHANGED llm_error
    /\ UNCHANGED <<use_rag, is_mock, sources>>

NextStream ==
    \/ StreamCall
    \/ StreamRetrieved
    \/ StreamRetrieveRaises
    \/ StreamLLMStep

--------------------------------------------------------------------------
(* ConversationStorage and ChatService.send_message                        *)
(*                                                                         *)
(* send_message runs in one session, hence one transaction, committed      *)
(* after the assistant message is added.  created_at has the server        *)
(* default now(), which in PostgreSQL is the start time of the current     *)
(* transaction: every row a transaction inserts carries the same           *)
(* created_at.  Calls are sequential here and the clock advances between   *)
(* them.                                                                   *)

\* ConversationStorage.get_or_create_conversation: "use" an existing
\* conversation of the user, "create" one with the given or a fresh id, or
\* "conflict" when the id exists and belongs to someone else (the insert
\* with that primary key fails).
ResolveConversation(convs, user, cid) ==
    CASE cid = NoConv          -> "create"
      [] cid = BadConvId       -> "create"   \* uuid.UUID raises ValueError
      [] convs[cid] = user     -> "use"
      [] convs[cid] = NoUser   -> "create"
      [] OTHER                 -> "conflict"

\* ConversationStorage.add_message: the row gets created_at = now().
AddMessage(msgs, cid, role, now) ==
    Append(msgs, [conv |-> cid, role |-> role, created_at |-> now])

\* Row numbers of a conversation's messages.
ConvRows(msgs, cid) == {i \in 1..Len(msgs) : msgs[i].conv = cid}

\* The sequences ORDER BY created_at ASC may return for the rows S: rows
\* with equal created_at come in an order the query does not determine.
RECURSIVE OrderedByCreatedAt(_, _)
OrderedByCreatedAt(msgs, S) ==
    IF S = {} THEN {<<>>}
    ELSE LET first == {m \in S : \A o \in S :
                            msgs[m].created_at <= msgs[o].created_at}
         IN  UNION {{<<m>> \o t : t \in OrderedByCreatedAt(msgs, S \ {m})}
                        : m \in first}

\* ConversationStorage.get_messages with the default limit and offset 0.
GetMessages(msgs, cid) ==
    {SubSeq(o, 1, IF Len(o) < GetMessagesLimit THEN Len(o) ELSE GetMessagesLimit)
        : o \in OrderedByCreatedAt(msgs, ConvRows(msgs, cid))}

ChatInit ==
    /\ clock = 0
    /\ conversations = [c \in ConvIds |-> NoUser]
    /\ messages = <<>>
    /\ chPc = "idle"
    /\ chUser = NoUser
    /\ chArg = NoConv
    /\ chConv = NoConv
    /\ chCreated = FALSE
    /\ chPrior = 0
    /\ chHistory = <<>>
    /\ chResponse = "none"
    /\ lastRead = <<>>

\* send_message is called: the session's transaction begins and the
\* conversation is resolved (step 1).
ChatCall ==
    /\ ChatOnly
    /\ chPc \in {"idle", "done", "raised"}
    /\ clock < MaxCalls
    /\ clock' = clock + 1
    /\ \E user \in Users, cid \in ConvIds \cup {NoConv, BadConvId} :
          LET how == ResolveConversation(conversations, user, cid)
              free == {c \in ConvIds : conversations[c] = NoUser}
              new == IF cid \in {NoConv, BadConvId} THEN free ELSE {cid}
          IN  /\ chUser' = user
              /\ chArg' = cid
              /\ CASE how = "use" ->
                        /\ chConv' = cid
                        /\ chCreated' = FALSE
                        /\ chPc' = "conv"
                        /\ UNCHANGED conversations
                   [] how = "create" ->
                        /\ \E c \in new :
                              /\ chConv' = c
                              /\ conversations' = [conversations EXCEPT ![c] = user]
                        /\ chCreated' = TRUE
                        /\ chPc' = "conv"
                   [] how = "conflict" ->
                        /\ chConv' = NoConv
                        /\ chCreated' = FALSE
                        /\ chPc' = "raised"
                        /\ UNCHANGED conversations
    /\ chPrior' = Len(messages)
    /\ chHistory' = <<>>
    /\ chResponse' = "none"
    /\ lastRead' = <<>>
    /\ UNCHANGED messages

\* Step 2: the user message is added.
ChatSaveUser ==
    /\ ChatOnly
    /\ chPc = "conv"
    /\ messages' = AddMessage(messages, chConv, "user", clock)
    /\ chPc' = "user_saved"
    /\ UNCHANGED <<clock, conversations, chUser, chArg, chConv, chCreated, chPrior, chHistory,
                   chResponse, lastRead>>

\* Steps 3-5: history and memory are read and generate_response returns,
\* with the fallback text when the LLM call raised.
ChatGenerate ==
    /\ ChatOnly
    /\ chPc = "user_saved"
    /\ \E all_messages \in GetMessages(messages, chConv) :
          chHistory' = SubSeq(all_messages, 1, Len(all_messages) - 1)
    /\ \E r \in {"answer", "apology"} : chResponse' = r
    /\ chPc' = "generated"
    /\ UNCHANGED <<clock, conversations, messages, chUser, chArg, chConv, chCreated,
                   chPrior, lastRead>>

\* Retrieval inside generate_response raises: the exception leaves
\* send_message and get_session rolls the transaction back.
ChatGenerateRaises ==
    /\ ChatOnly
    /\ chPc = "user_saved"
    /\ messages' = SubSeq(messages, 1, chPrior)
    /\ conversations' = IF chCreated
                        THEN [conversations EXCEPT ![chConv] = NoUser]
                        ELSE conversations
    /\ chPc' = "raised"
    /\ UNCHANGED <<clock, chUser, chArg, chConv, chCreated, chPrior, chHistory, chResponse,
                   lastRead>>

\* Step 6 and the commit: the assistant message is added and
\* session.commit() makes the conversation and both messages durable.
ChatSaveAssistant ==
    /\ ChatOnly
    /\ chPc = "generated"
    /\ messages' = AddMessage(messages, chConv, "assistant", clock)
    /\ chPc' = "committed"
    /\ UNCHANGED <<clock, conversations, chUser, chArg, chConv, chCreated, chPrior, chHistory,
                   chResponse, lastRead>>

\* Step 8.5 and the return: the memory update runs after the commit, in
\* sessions of its own (its effect on the memory row is followed in the
\* memory machine), and the call returns.
ChatMemoryUpdated ==
    /\ ChatOnly
    /\ chPc = "committed"
    /\ chPc' = "done"
    /\ UNCHANGED <<clock, conversations, messages, chUser, chArg, chConv, chCreated,
                   chPrior, chHistory, chResponse, lastRead>>

\* Step 8.5 raises (delete_memory, update_memory or the commit of the
\* memory session fails): the exception leaves send_message, and the
\* rollback of get_session finds the transaction already committed.
ChatMemoryRaises ==
    /\ ChatOnly
    /\ chPc = "committed"
    /\ chPc' = "raised"
    /\ UNCHANGED <<clock, conversations, messages, chUser, chArg, chConv, chCreated,
                   chPrior, chHistory, chResponse, lastRead>>

\* After the call returned, the conversation is read with get_messages.
ChatRead ==
    /\ ChatOnly
    /\ chPc = "done"
    /\ \E o \in GetMessages(messages, chConv) : lastRead' = o
    /\ UNCHANGED <<clock, conversations, messages, chPc, chUser, chArg, chConv,
                   chCreated, chPrior, chHistory, chResponse>>

NextChat ==
    \/ ChatCall
    \/ ChatSaveUser
    \/ ChatGenerate
    \/ ChatGenerateRaises
    \/ ChatSaveAssistant
    \/ ChatMemoryUpdated
    \/ ChatMemoryRaises
    \/ ChatRead

--------------------------------------------------------------------------
(* JobStorage: operations on one ingestion_jobs row.                       *)
(*                                                                         *)
(* The job row is one shared row that every session reads and writes       *)
(* statement by statement (the design has all coordination happen through  *)
(* the job rows); transaction isolation between the session of             *)
(* process_batch and the session of cancel_ingestion is not modelled.      *)
(* errors entries are pairs <<kind, detail>> standing for the message      *)
(* strings.  progress_percent is kept as the exact fraction                *)
(* <<numerator, denominator>> of the float the code computes.              *)

\* JobStorage.create_job with the column defaults of IngestionJob.
CreateJob(user, total_documents) ==
    [user_id |-> user,
     status |-> "queued",
     total_documents |-> total_documents,
     processed_documents |-> 0,
     failed_documents |-> 0,
     errors |-> <<>>,
     progress_percent |-> <<0, 1>>,
     completed_at |-> NoneTime]

\* Python's `a or b` for an int | None a.
PyOr(a, b) == IF a = NoneInt \/ a = 0 THEN b ELSE a

UpdateJobStatus_keepProgress(j, status, processed_documents, failed_documents, errors, completed_at) ==
    [j EXCEPT
        !.status = status,
        !.processed_documents =
            IF processed_documents # NoneInt THEN processed_documents ELSE @,
        !.failed_documents =
            IF failed_documents # NoneInt THEN failed_documents ELSE @,
        !.errors = IF errors # NoneList THEN errors ELSE @,
        !.completed_at = IF completed_at # NoneTime THEN completed_at ELSE @]

\* JobStorage.update_job_status on the row j that get_job returned.
UpdateJobStatus(j, status, processed_documents, failed_documents, errors, completed_at) ==
    LET total_processed ==
            PyOr(processed_documents, j.processed_documents)
              + PyOr(failed_documents, j.failed_documents)
    IN  [j EXCEPT
            !.status = status,
            !.processed_documents =
                IF processed_documents # NoneInt THEN processed_documents ELSE @,
            !.failed_documents =
                IF failed_documents # NoneInt THEN failed_documents ELSE @,
            !.errors = IF errors # NoneList THEN errors ELSE @,
            !.completed_at = IF completed_at # NoneTime THEN completed_at ELSE @,
            !.progress_percent =
                IF j.total_documents > 0
                THEN <<total_processed * 100, j.total_documents>>
                ELSE @]

\* JobStorage.increment_processed
IncrementProcessed(j) ==
    UpdateJobStatus(j, "processing", j.processed_documents + 1, NoneInt,
                    NoneList, NoneTime)

IncrementFailed_noError(j, error) ==
    UpdateJobStatus(j, "processing", NoneInt, j.failed_documents + 1,
                    NoneList, NoneTime)

\* JobStorage.increment_failed
IncrementFailed(j, error) ==
    UpdateJobStatus(j, "processing", NoneInt, j.failed_documents + 1,
                    Append(j.errors, error), NoneTime)

CompleteJobStatus_noPartial(processed_documents, failed_documents) ==
    IF failed_documents > 0 THEN "failed" ELSE "completed"

\* The status complete_job computes from the counters.
CompleteJobStatus(processed_documents, failed_documents) ==
    IF failed_documents > 0
    THEN IF processed_documents = 0 THEN "failed" ELSE "partial"
    ELSE "completed"

\* JobStorage.complete_job
CompleteJob(j) ==
    UpdateJobStatus(j,
                    CompleteJobStatus(j.processed_documents, j.failed_documents),
                    NoneInt, NoneInt, NoneList, "set")

\* `job = await self.get_job(job_id); if job: ...` around an update to the new row.
OnJob(tbl, jid, row) ==
    IF jid \in DOMAIN tbl THEN [tbl EXCEPT ![jid] = row] ELSE tbl

\* The methods class JobStorage defines.
JobStorageMethods ==
    {"create_job", "get_job", "update_job_status", "increment_processed",
     "increment_failed", "complete_job"}

--------------------------------------------------------------------------
(* DocumentProcessor.process_document and process_batch *)

\* An input document: its content (empty, within the limit, over the
\* limit), the number of chunks the chunker makes of it, and what goes
\* wrong while it is processed (nothing, the chunker, the embedder).
DocInputs ==
    {[content |-> "text", nchunks |-> n, fault |-> f] :
        n \in 1..MaxChunksPerDoc, f \in {"none", "chunker", "embedder"}}
    \cup {[content |-> c, nchunks |-> 0, fault |-> "none"] :
            c \in {"empty", "long"}}

Batches == UNION {[1..n -> DocInputs] : n \in 0..MaxDocs}

\* validate_user_id
ValidUserId(u) == u \in Users

\* The validation steps at the top of process_document: the error raised,
\* or "ok".
Validate(user, d) ==
    IF ~ValidUserId(user) THEN <<"Validation error", "user id">>
    ELSE IF d.content = "empty" THEN <<"Validation error", "empty content">>
    ELSE IF d.content = "long" THEN <<"Validation error", "content too large">>
    ELSE <<"ok", "ok">>

CreateDocumentParams_isGlobal ==
    {"user_id", "title", "content", "document_type", "source_url",
     "metadata", "document_id", "is_global"}

\* The parameters DocumentStorage.create_document accepts.
CreateDocumentParams ==
    {"user_id", "title", "content", "document_type", "source_url",
     "metadata", "document_id"}

\* The keyword arguments process_document passes to create_document.
CreateDocumentKwargs ==
    {"user_id", "title", "content", "document_type", "source_url",
     "metadata", "document_id", "is_global"}

\* DocumentStorage.get_document: the rows with this id (one or none).
GetDocument(docs, id) == {d \in docs : d.id = id}

\* DocumentStorage.delete_document: the table afterwards, and rowcount > 0.
DeleteDocument(docs, id) ==
    [documents |-> docs \ GetDocument(docs, id),
     success |-> GetDocument(docs, id) # {}]

\* create_document called with its row added to the session before the
\* call fails.
CreateDocument_addFirst(docs, kwargs, row) ==
    IF ~(kwargs \subseteq CreateDocumentParams)
    THEN [documents |-> docs \cup {row}, raised |-> "TypeError"]
    ELSE IF GetDocument(docs, row.id) # {}
    THEN [documents |-> docs, raised |-> "IntegrityError"]
    ELSE [documents |-> docs \cup {row}, raised |-> "none"]

\* DocumentStorage.create_document called with the keyword arguments
\* kwargs: a call with an unexpected keyword argument raises TypeError
\* before the body runs, an id that is already stored fails the insert,
\* and otherwise the row is added.
CreateDocument(docs, kwargs, row) ==
    IF ~(kwargs \subseteq CreateDocumentParams)
    THEN [documents |-> docs, raised |-> "TypeError"]
    ELSE IF GetDocument(docs, row.id) # {}
    THEN [documents |-> docs, raised |-> "IntegrityError"]
    ELSE [documents |-> docs \cup {row}, raised |-> "none"]

\* process_document for document d (number id of the batch) on job row j
\* and documents table docs: the new row, the new table, and whether the
\* call raised.
ProcessDocument(j, docs, user, d, id) ==
    LET v == Validate(user, d)
        row == [id |-> id, user_id |-> user, chunks |-> 0, embeddings |-> 0]
        c == CreateDocument(docs, CreateDocumentKwargs, row)
        chunked == (c.documents \ {row}) \cup
                      {[row EXCEPT !.chunks = d.nchunks]}
        embedded == (c.documents \ {row}) \cup
                      {[row EXCEPT !.chunks = d.nchunks,
                                   !.embeddings = d.nchunks]}
    IN  IF v[1] # "ok"
        THEN [job |-> IncrementFailed(j, v), documents |-> docs, raised |-> TRUE]
        ELSE IF c.raised # "none"
        THEN [job |-> IncrementFailed(j, <<"exception", c.raised>>),
              documents |-> c.documents, raised |-> TRUE]
        ELSE IF d.fault = "chunker"
        \* the created document is deleted again
        THEN [job |-> IncrementFailed(j, <<"exception", "chunker">>),
              documents |-> DeleteDocument(c.documents, id).documents,
              raised |-> TRUE]
        ELSE IF d.fault = "embedder"
        \* the created document and chunks are deleted again
        THEN [job |-> IncrementFailed(j, <<"exception", "embedder">>),
              documents |-> DeleteDocument(chunked, id).documents,
              raised |-> TRUE]
        ELSE [job |-> IncrementProcessed(j),
              documents |-> embedded,
              raised |-> FALSE]

AfterDocument_abort(i, n, raised) == IF raised THEN n + 1 ELSE i + 1

\* The for loop of process_batch after document i of n: `continue` after
\* an exception, the next iteration otherwise.
AfterDocument(i, n, raised) == i + 1

IngestInit ==
    /\ jobs = <<>>
    /\ documents = {}
    /\ bPc = "idle"
    /\ bUser = NoUser
    /\ bDocs = <<>>
    /\ bJob = NoJob
    /\ idx = 0
    /\ attempted = <<>>
    /\ failedDocs = {}
    /\ cPc = "idle"
    /\ cJob = NoJob
    /\ cUser = NoUser
    /\ cSeen = "none"
    /\ cResult = [success |-> FALSE, message |-> <<>>]
    /\ listed = [user_id |-> NoUser, items |-> {}]
    /\ delResult = [resource_id |-> 0, user_id |-> NoUser, success |-> FALSE]

\* process_batch is called and creates the job.
BatchCreateJob ==
    /\ IngestOnly
    /\ bPc = "idle"
    /\ \E user \in Users \cup {BadUserId}, docs \in Batches, jid \in JobIds :
          /\ bUser' = user
          /\ bDocs' = docs
          /\ bJob' = jid
          /\ jobs' = (jid :> CreateJob(user, Len(docs))) @@ jobs
    /\ bPc' = "created"
    /\ idx' = 1
    /\ UNCHANGED <<documents, attempted, failedDocs, cancelVars>>

\* update_job_status(job.id, status="processing")
BatchSetProcessing ==
    /\ IngestOnly
    /\ bPc = "created"
    /\ LET Upd(j) == UpdateJobStatus(j, "processing", NoneInt, NoneInt,
                                     NoneList, NoneTime)
       IN  jobs' = OnJob(jobs, bJob, Upd(jobs[bJob]))
    /\ bPc' = "loop"
    /\ UNCHANGED <<documents, bUser, bDocs, bJob, idx, attempted, failedDocs, cancelVars>>

\* One iteration of the for loop: process_document for the next document.
BatchProcessDocument ==
    /\ IngestOnly
    /\ bPc = "loop"
    /\ idx <= Len(bDocs)
    /\ LET r == ProcessDocument(jobs[bJob], documents, bUser, bDocs[idx], idx)
       IN  /\ jobs' = [jobs EXCEPT ![bJob] = r.job]
           /\ documents' = r.documents
           /\ idx' = AfterDocument(idx, Len(bDocs), r.raised)
    /\ attempted' = Append(attempted, idx)
    /\ failedDocs' = IF ProcessDocument(jobs[bJob], documents, bUser, bDocs[idx], idx).raised
                     THEN failedDocs \cup {idx} ELSE failedDocs
    /\ UNCHANGED <<bPc, bUser, bDocs, bJob, cancelVars>>

\* After the loop: complete_job, and process_batch returns.
BatchCompleteJob ==
    /\ IngestOnly
    /\ bPc = "loop"
    /\ idx > Len(bDocs)
    /\ jobs' = OnJob(jobs, bJob, CompleteJob(jobs[bJob]))
    /\ bPc' = "done"
    /\ UNCHANGED <<documents, bUser, bDocs, bJob, idx, attempted, failedDocs, cancelVars>>

NextBatch ==
    \/ BatchCreateJob
    \/ BatchSetProcessing
    \/ BatchProcessDocument
    \/ BatchCompleteJob

--------------------------------------------------------------------------
(* IntelligenceEngine.cancel_ingestion *)

\* What `await job_storage.update_job(job)` leads to: the return value of
\* cancel_ingestion.  A method the class does not define raises
\* AttributeError, which the except clause turns into a failure result.
CancelReturn(methods) ==
    IF "update_job" \in methods
    THEN [success |-> TRUE, message |-> <<"Successfully cancelled job">>]
    ELSE [success |-> FALSE, message |-> <<"Error cancelling job", "AttributeError">>]

\* cancel_ingestion up to its return statement.
CancelLoad ==
    /\ IngestOnly
    /\ cPc \in {"idle", "done"}
    /\ \E jid \in JobIds, user \in Users :
          /\ cJob' = jid
          /\ cUser' = user
          /\ IF jid \notin DOMAIN jobs
             THEN /\ cSeen' = "none"
                  /\ cResult' = [success |-> FALSE, message |-> <<"Job not found">>]
                  /\ cPc' = "done"
             ELSE /\ cSeen' = jobs[jid].status
                  /\ IF jobs[jid].status \notin {"queued", "processing"}
                     THEN /\ cResult' = [success |-> FALSE,
                                         message |-> <<"Cannot cancel job in",
                                                       jobs[jid].status, "state">>]
                          /\ cPc' = "done"
                     \* job.status and job.errors are assigned on the loaded
                     \* object, which makes the session dirty
                     ELSE /\ cResult' = CancelReturn(JobStorageMethods)
                          /\ cPc' = "dirty"
    /\ UNCHANGED <<jobs, documents, batchVars>>

\* get_session commits when the block is left without an exception: the
\* assigned status and errors are written to the row.
CancelCommit ==
    /\ IngestOnly
    /\ cPc = "dirty"
    /\ jobs' = [jobs EXCEPT ![cJob].status = "cancelled",
                            ![cJob].errors = << <<"Cancelled by user", cUser>> >>]
    /\ cPc' = "done"
    /\ UNCHANGED <<documents, batchVars, cJob, cUser, cSeen, cResult>>

NextIngest ==
    \/ BatchCreateJob
    \/ BatchSetProcessing
    \/ BatchProcessDocument
    \/ BatchCompleteJob
    \/ CancelLoad
    \/ CancelCommit

--------------------------------------------------------------------------
(* JobStorage driven directly: any sequence of increment_processed and     *)
(* increment_failed calls on a new job, then complete_job.                 *)

JobCreate ==
    /\ IngestOnly
    /\ bPc = "idle"
    /\ \E user \in Users, total \in 0..MaxApiCalls, jid \in JobIds :
          /\ bUser' = user
          /\ bJob' = jid
          /\ jobs' = (jid :> CreateJob(user, total)) @@ jobs
    /\ bPc' = "api"
    /\ UNCHANGED <<documents, bDocs, idx, attempted, failedDocs, cancelVars>>

JobIncrementProcessed ==
    /\ IngestOnly
    /\ bPc = "api"
    /\ jobs[bJob].processed_documents + jobs[bJob].failed_documents < MaxApiCalls
    /\ jobs' = OnJob(jobs, bJob, IncrementProcessed(jobs[bJob]))
    /\ UNCHANGED <<documents, batchVars, cancelVars>>

JobIncrementFailed ==
    /\ IngestOnly
    /\ bPc = "api"
    /\ jobs[bJob].processed_documents + jobs[bJob].failed_documents < MaxApiCalls
    /\ LET Upd(j) == IncrementFailed(j, <<"exception", "error">>)
       IN  jobs' = OnJob(jobs, bJob, Upd(jobs[bJob]))
    /\ UNCHANGED <<documents, batchVars, cancelVars>>

JobComplete ==
    /\ IngestOnly
    /\ bPc = "api"
    /\ jobs' = OnJob(jobs, bJob, CompleteJob(jobs[bJob]))
    /\ bPc' = "done"
    /\ UNCHANGED <<documents, bUser, bDocs, bJob, idx, attempted, failedDocs, cancelVars>>

NextJob ==
    \/ JobCreate
    \/ JobIncrementProcessed
    \/ JobIncrementFailed
    \/ JobComplete

--------------------------------------------------------------------------
(* ResourceService: AddResource, ListResources, DeleteResource *)

DocIds == 1..MaxStored

\* The contents the documents table can have when the service starts: the
\* table outlives the process.  Every stored document has one chunk with
\* its embedding.
StoredDocuments ==
    {{[id |-> i, user_id |-> f[i], chunks |-> 1, embeddings |-> 1] :
            i \in {k \in DocIds : f[k] # NoUser}} :
        f \in [DocIds -> Users \cup {NoUser}]}

ListUserDocuments_all(docs, user_id, limit) ==
    {S \in SUBSET docs :
        /\ Cardinality(S) <= limit
        /\ Cardinality(S) = limit \/ S = docs}

\* DocumentStorage.list_user_documents: the results the query can give.
\* The rows of user_id, at most `limit` of them; which ones when there are
\* more is decided by created_at, which this table does not carry.
ListUserDocuments(docs, user_id, limit) ==
    LET owned == {d \in docs : d.user_id = user_id}
    IN  {S \in SUBSET owned :
            /\ Cardinality(S) <= limit
            /\ Cardinality(S) = limit \/ S = owned}

\* IntelligenceEngine.delete_resource
DeleteResourceEngine(docs, resource_id, user_id) ==
    IF /\ user_id # EmptyUser
       /\ \E d \in GetDocument(docs, resource_id) : d.user_id # user_id
    THEN [documents |-> docs, success |-> FALSE]
    ELSE DeleteDocument(docs, resource_id)

\* IntelligenceEngine.add_resource: process_batch for the one document d
\* with id rid, in one session that is committed; jid is the new job's id.
AddResourceEngine(js, docs, user, d, rid, jid) ==
    LET created == CreateJob(user, 1)
        started == UpdateJobStatus(created, "processing", NoneInt,
                                   NoneInt, NoneList, NoneTime)
        r == ProcessDocument(started, docs, user, d, rid)
    IN  [jobs |-> (jid :> CompleteJob(r.job)) @@ js, documents |-> r.documents]

\* ResourceService.AddResource: add_resource runs process_batch for one
\* document in one session and commits.
AddResource ==
    /\ ResourceOnly
    /\ \E user \in Users \cup {EmptyUser}, d \in DocInputs, rid \in DocIds,
          jid \in JobIds \ DOMAIN jobs :
          LET r == AddResourceEngine(jobs, documents, user, d, rid, jid)
          IN  /\ jobs' = r.jobs
              /\ documents' = r.documents
    /\ UNCHANGED resourceVars

\* ResourceService.ListResources
ListResources ==
    /\ ResourceOnly
    /\ \E user \in Users, limit \in {0, 1}, expired \in BOOLEAN :
          \E S \in ListUserDocuments(documents, user,
                       IF limit = 0 THEN DefaultListLimit ELSE limit) :
              listed' = [user_id |-> user,
                         items |-> IF expired THEN {} ELSE S]
    /\ UNCHANGED <<jobs, documents, delResult>>

\* ResourceService.DeleteResource
DeleteResource ==
    /\ ResourceOnly
    /\ \E user \in Users \cup {EmptyUser}, rid \in DocIds, expired \in BOOLEAN :
          LET r == IF expired
                   THEN [documents |-> documents, success |-> FALSE]
                   ELSE DeleteResourceEngine(documents, rid, user)
          IN  /\ documents' = r.documents
              /\ delResult' = [resource_id |-> rid, user_id |-> user,
                               success |-> r.success]
    /\ UNCHANGED <<jobs, listed>>

NextResource ==
    \/ AddResource
    \/ ListResources
    \/ DeleteResource

--------------------------------------------------------------------------
(* IntelligenceEngine.get_resource_status behind                          *)
(* ResourceService.GetResourceStatus.  The job a document was ingested    *)
(* by is the job_id entry of its metadata, which process_document writes  *)
(* (processor.py:159); it is given here as a function from document ids   *)
(* to job ids.                                                            *)

CheckDeadline_always(passed) == TRUE

\* check_deadline: False when the deadline has passed.
CheckDeadline(passed) == ~passed

NoJobId == ""        \* request.job_id left unset
NoResourceId == 0    \* request.resource_id left unset
NoError == <<>>      \* error=None
AccessDeniedJob == <<"Access denied", "job belongs to another user">>
AccessDeniedResource == <<"Access denied", "resource belongs to another user">>

\* The job_id entries the stored documents can carry: none, or a job of
\* the document's owner.
MetadataJobIds(js, docs) ==
    {f \in [{d.id : d \in docs} -> JobIds \cup {NoJob}] :
        \A d \in docs :
            f[d.id] # NoJob =>
                f[d.id] \in DOMAIN js /\ js[f[d.id]].user_id = d.user_id}

\* JobStorage.get_job: the row, or none.
GetJob(js, job_id) == IF job_id \in DOMAIN js THEN {js[job_id]} ELSE {}

\* DocumentStorage.get_document_chunk_count
GetDocumentChunkCount(docs, resource_id) ==
    IF GetDocument(docs, resource_id) = {} THEN 0
    ELSE (CHOOSE d \in GetDocument(docs, resource_id) : TRUE).chunks

\* The RESOURCE_STATUS_* value of a job row, UNSPECIFIED without one.
ResourceStatusOf(job) ==
    IF job = {} THEN "UNSPECIFIED"
    ELSE LET j == CHOOSE x \in job : TRUE
         IN  IF j.status \in {"queued", "processing", "completed", "failed",
                              "partial"}
             THEN j.status ELSE "UNSPECIFIED"

ResourceStatusResponse(job_id, resource_id, status, chunks_created, error, progress) ==
    [job_id |-> job_id, resource_id |-> resource_id, status |-> status,
     chunks_created |-> chunks_created, error |-> error, progress |-> progress]

\* The response built from the job found (or none) and the chunk count.
StatusOfJob(docs, job, actual_job_id, resource_id) ==
    LET j == CHOOSE x \in job : TRUE
    IN  ResourceStatusResponse(
            actual_job_id, resource_id, ResourceStatusOf(job),
            IF resource_id # NoResourceId
            THEN GetDocumentChunkCount(docs, resource_id)
            ELSE IF job # {} THEN j.processed_documents ELSE 0,
            IF job # {} /\ j.errors # <<>> THEN j.errors[1] ELSE NoError,
            IF job # {} THEN j.progress_percent ELSE <<0, 1>>)

\* IntelligenceEngine.get_resource_status: by job_id when one is given,
\* otherwise by resource_id; the owner of the row looked up is compared
\* with a non-empty user_id.
GetResourceStatus(js, docs, links, job_id, resource_id, user_id) ==
    LET job == GetJob(js, job_id)
        doc == GetDocument(docs, resource_id)
    IN  IF job_id # NoJobId
        THEN IF job # {} /\ user_id # EmptyUser
                /\ \E j \in job : j.user_id # user_id
             THEN ResourceStatusResponse(job_id, resource_id, "UNSPECIFIED", 0,
                                         AccessDeniedJob, <<0, 1>>)
             ELSE StatusOfJob(docs, job, job_id, resource_id)
        ELSE IF resource_id # NoResourceId
        THEN IF doc # {} /\ user_id # EmptyUser
                /\ \E d \in doc : d.user_id # user_id
             THEN ResourceStatusResponse(NoJobId, resource_id, "UNSPECIFIED", 0,
                                         AccessDeniedResource, <<0, 1>>)
             ELSE IF doc # {} /\ links[resource_id] # NoJob
             THEN StatusOfJob(docs, GetJob(js, links[resource_id]),
                              links[resource_id], resource_id)
             ELSE StatusOfJob(docs, {}, job_id, resource_id)
        ELSE StatusOfJob(docs, {}, job_id, resource_id)

StatusIdle ==
    /\ stCall = [user_id |-> EmptyUser, job_id |-> NoJobId,
                 resource_id |-> NoResourceId]
    /\ stResponse = ResourceStatusResponse(NoJobId, NoResourceId, "none", 0,
                                            NoError, <<0, 1>>)

\* ResourceService.GetResourceStatus: past the deadline the engine is not
\* reached and the response carries the request's ids and status FAILED.
GetResourceStatusCall ==
    /\ StatusOnly
    /\ stResponse.status = "none"
    /\ \E user \in Users \cup {EmptyUser}, job_id \in JobIds \cup {NoJobId},
          resource_id \in DocIds \cup {NoResourceId}, expired \in BOOLEAN,
          links \in MetadataJobIds(jobs, documents) :
          /\ stCall' = [user_id |-> user, job_id |-> job_id,
                        resource_id |-> resource_id]
          /\ stResponse' =
                IF ~CheckDeadline(expired)
                THEN ResourceStatusResponse(job_id, resource_id, "FAILED", 0,
                                            NoError, <<0, 1>>)
                ELSE GetResourceStatus(jobs, documents, links, job_id,
                                       resource_id, user)

\* An AddResource call made before the status is asked for.
StatusAddResource ==
    /\ stResponse.status = "none"
    /\ AddResource

NextStatus ==
    \/ StatusAddResource
    \/ GetResourceStatusCall

--------------------------------------------------------------------------
(* ChatService.StreamChat (interfaces/chat.py) iterating                   *)
(* ChatService.stream_chat (engine/chat/service.py), which iterates        *)
(* QueryPipeline.stream_response.  The generators run in lockstep: the     *)
(* pipeline advances only when stream_chat asks for its next event, and    *)
(* stream_chat only when StreamChat asks for its next chunk.               *)

\* ChatStreamChunk with the fields the stream is judged by.
Chunk(kind, conversation_id, is_final, token, code, msg) ==
    [kind |-> kind, conversation_id |-> conversation_id,
     is_final |-> is_final, token |-> token, code |-> code, msg |-> msg]

\* classify_error: `in` tests on the lower-cased message, first match wins.
ClassifyError(msg) ==
    IF "timeout" \in msg \/ "deadline" \in msg THEN "TIMEOUT"
    ELSE IF "rate" \in msg \/ "quota" \in msg \/ "limit" \in msg
    THEN "RATE_LIMITED"
    ELSE IF "context" \in msg
            /\ ("long" \in msg \/ "length" \in msg \/ "token" \in msg)
    THEN "CONTEXT_TOO_LONG"
    ELSE IF "model" \in msg /\ ("unavailable" \in msg \/ "not found" \in msg)
    THEN "MODEL_UNAVAILABLE"
    ELSE IF "invalid" \in msg \/ "validation" \in msg THEN "INVALID_REQUEST"
    ELSE "INTERNAL_ERROR"

\* The data of the pipeline's error event is str(e), not the exception.
ErrorDataIsException == FALSE

\* The error code stream_chat gives an error event.
StreamErrorCodeOf(msg) ==
    IF ErrorDataIsException THEN ClassifyError(msg) ELSE "INTERNAL_ERROR"

\* `request.conversation_id or ""`
RequestConversationId(arg) == IF arg = NoConv THEN "" ELSE arg

\* The chunk StreamChat sends when check_deadline fails mid-stream.
DeadlineChunk(arg, conv) ==
    Chunk("error", RequestConversationId(arg), TRUE, 0, "DEADLINE_EXCEEDED",
          {"deadline"})

\* ConversationStorage.add_message with the content of the row.
AddMessageContent(msgs, cid, role, content, now) ==
    Append(msgs, [conv |-> cid, role |-> role, created_at |-> now,
                  content |-> content])

\* The chunks stream_chat yields for one pipeline event, in order.
ChunksFor(event, conv, nsources, ntokens, msg) ==
    CASE event = "sources" ->
            [i \in 1..nsources |-> Chunk("source", conv, FALSE, 0, "", {})]
      [] event = "token" ->
            <<Chunk("token", conv, FALSE, ntokens + 1, "", {})>>
      [] event = "metrics" -> <<>>
      \* retrieval_metrics is never empty, so the partial metrics are sent
      [] event = "error" ->
            <<Chunk("metrics", conv, FALSE, 0, "", {}),
              Chunk("error", conv, TRUE, 0, StreamErrorCodeOf(msg), msg)>>

StreamChatInit ==
    /\ scPc = "idle"
    /\ scUser = NoUser
    /\ scArg = NoConv
    /\ scConv = NoConv
    /\ scCreated = FALSE
    /\ scPrior = 0
    /\ consumed = 0
    /\ pending = <<>>
    /\ out = <<>>
    /\ full_response = <<>>
    /\ scExpired = FALSE

\* The session is closed without a commit: the rows the call inserted are
\* gone.
RolledBack ==
    /\ messages' = SubSeq(messages, 1, scPrior)
    /\ conversations' = IF scCreated
                        THEN [conversations EXCEPT ![scConv] = NoUser]
                        ELSE conversations

\* StreamChat is called (once in a behaviour).  With the deadline already passed it returns at
\* once.  Otherwise stream_chat opens its session, resolves the
\* conversation, adds the user message and creates the stream_response
\* generator.
ScCall ==
    /\ StreamChatOnly
    /\ scPc = "idle"
    /\ clock' = clock + 1
    /\ \E user \in Users, cid \in ConvIds \cup {NoConv, BadConvId},
          late \in BOOLEAN :
          LET how == ResolveConversation(conversations, user, cid)
              free == {c \in ConvIds : conversations[c] = NoUser}
              new == IF cid \in {NoConv, BadConvId} THEN free ELSE {cid}
              convs == IF how = "use" THEN {cid} ELSE new
          IN  /\ scUser' = user
              /\ scArg' = cid
              /\ IF late \/ how = "conflict"
                 THEN /\ scPc' = IF late THEN "rejected" ELSE "failed"
                      /\ scConv' = NoConv
                      /\ scCreated' = FALSE
                      /\ UNCHANGED <<conversations, messages, streamVars>>
                 ELSE /\ \E c \in convs :
                            /\ scConv' = c
                            /\ conversations' = [conversations EXCEPT ![c] = user]
                            /\ messages' = AddMessageContent(messages, c, "user",
                                                             <<>>, clock + 1)
                      /\ scCreated' = (how = "create")
                      /\ scPc' = "streaming"
                      /\ sPc' = "retrieve"
                      /\ \E rag \in BOOLEAN, mock \in BOOLEAN :
                            /\ use_rag' = rag
                            /\ is_mock' = mock
                      /\ events' = <<>>
                      /\ token_count' = 0
                      /\ sources' = 0
                      /\ lines' = 0
                      /\ llm_failed' = FALSE
                      /\ llm_error' = {}
    /\ scPrior' = Len(messages)
    /\ consumed' = 0
    /\ pending' = <<>>
    /\ out' = <<>>
    /\ full_response' = <<>>
    /\ scExpired' = FALSE

\* stream_chat asks the pipeline for its first event: retrieval returns.
ScRetrieved ==
    /\ scPc = "streaming"
    /\ StreamRetrieved

\* ... or retrieval raises.
ScRetrieveRaises ==
    /\ scPc = "streaming"
    /\ StreamRetrieveRaises

\* stream_chat asks the pipeline for a further event.
ScLLMStep ==
    /\ scPc = "streaming"
    /\ pending = <<>>
    /\ consumed = Len(events)
    /\ StreamLLMStep

\* The body of `async for chunk in stream_response(...)` for one event.
ScConsume ==
    /\ StreamChatOnly
    /\ scPc = "streaming"
    /\ pending = <<>>
    /\ consumed < Len(events)
    /\ LET event == events[consumed + 1]
       IN  /\ pending' = ChunksFor(event, scConv, sources, Len(full_response),
                                   llm_error)
           /\ full_response' = IF event = "token"
                               THEN Append(full_response, Len(full_response) + 1)
                               ELSE full_response
           /\ scPc' = IF event = "error" THEN "erroring" ELSE scPc
    /\ consumed' = consumed + 1
    /\ UNCHANGED <<streamVars, clock, conversations, messages, scUser, scArg,
                   scConv, scCreated, scPrior, out, scExpired>>

\* The pipeline is exhausted: the final chunk with the metrics is yielded.
ScFinal ==
    /\ StreamChatOnly
    /\ scPc = "streaming"
    /\ pending = <<>>
    /\ consumed = Len(events)
    /\ sPc = "done"
    /\ pending' = <<Chunk("metrics", scConv, TRUE, 0, "", {})>>
    /\ scPc' = "final"
    /\ UNCHANGED <<streamVars, clock, conversations, messages, scUser, scArg,
                   scConv, scCreated, scPrior, consumed, out, full_response,
                   scExpired>>

\* The body of StreamChat's loop for one chunk of stream_chat: the chunk
\* is passed on, or with the deadline passed the deadline chunk is sent
\* and StreamChat returns, which leaves stream_chat suspended at its yield
\* until the generator is closed.  After the error chunk stream_chat
\* returns and its session commits.
ScForward ==
    /\ StreamChatOnly
    /\ scPc \in {"streaming", "erroring", "final"}
    /\ pending # <<>>
    /\ IF ~CheckDeadline(scExpired)
       THEN /\ out' = Append(out, DeadlineChunk(scArg, scConv))
            /\ pending' = <<>>
            /\ scPc' = "ended"
            /\ RolledBack
       ELSE /\ out' = Append(out, Head(pending))
            /\ pending' = Tail(pending)
            /\ scPc' = IF scPc = "erroring" /\ Len(pending) = 1
                       THEN "done" ELSE scPc
            /\ UNCHANGED <<conversations, messages>>
    /\ UNCHANGED <<streamVars, clock, scUser, scArg, scConv, scCreated, scPrior,
                   consumed, full_response, scExpired>>

\* StreamChat asks for the chunk after the final one: stream_chat adds the
\* assistant message and commits.
ScPersist ==
    /\ StreamChatOnly
    /\ scPc = "final"
    /\ pending = <<>>
    /\ messages' = AddMessageContent(messages, scConv, "assistant",
                                     full_response, clock)
    /\ scPc' = "done"
    /\ UNCHANGED <<streamVars, clock, conversations, scUser, scArg, scConv,
                   scCreated, scPrior, consumed, pending, out, full_response,
                   scExpired>>

\* The exception of retrieval leaves stream_chat (get_session rolls back)
\* and is caught by StreamChat, which sets the status code.
ScPipelineRaised ==
    /\ StreamChatOnly
    /\ scPc = "streaming"
    /\ sPc = "raised"
    /\ RolledBack
    /\ scPc' = "failed"
    /\ UNCHANGED <<streamVars, clock, scUser, scArg, scConv, scCreated, scPrior,
                   consumed, pending, out, full_response, scExpired>>

\* The request's deadline passes while the call is running.
ScDeadline ==
    /\ StreamChatOnly
    /\ scPc \in {"streaming", "erroring", "final"}
    /\ ~scExpired
    /\ scExpired' = TRUE
    /\ UNCHANGED <<streamVars, clock, conversations, messages, scPc, scUser,
                   scArg, scConv, scCreated, scPrior, consumed, pending, out,
                   full_response>>

NextStreamChat ==
    \/ ScCall
    \/ ScRetrieved
    \/ ScRetrieveRaises
    \/ ScLLMStep
    \/ ScConsume
    \/ ScFinal
    \/ ScForward
    \/ ScPersist
    \/ ScPipelineRaised
    \/ ScDeadline

--------------------------------------------------------------------------
(* Memory extraction: QueryPipeline.generate_memory_update and the        *)
(* user_memories table.                                                    *)
(*                                                                         *)
(* A text is the sequence of its lines (the text is the lines joined by    *)
(* "\n").  The lines below are already stripped; each stands for a kind of *)
(* line the extractor's LLM may write.                                     *)

FactLines == {"- has a dog", "- likes tea", "- ok"}
UncertainLine == "- maybe a cat"   \* contains the uncertain keyword "maybe"
BlankLine == ""
FenceLine == "<fence>"   \* a line that is a markdown code fence only
ForgetLine == "FORGET_ALL"
NoUpdateLine == "NO_UPDATE"
OutputLines ==
    FactLines \cup {UncertainLine, BlankLine, FenceLine, ForgetLine, NoUpdateLine}

\* len(line)
LineLen(line) ==
    CASE line = "- has a dog"   -> 11
      [] line = "- likes tea"   -> 11
      [] line = "- ok"          -> 4
      [] line = UncertainLine   -> 13
      [] line = BlankLine       -> 0
      [] line = FenceLine       -> 3
      [] line = ForgetLine      -> 10
      [] line = NoUpdateLine    -> 9

\* Position of a line in Python's ordering of str.
LineRank(line) ==
    CASE line = BlankLine       -> 0
      [] line = "- has a dog"   -> 1
      [] line = "- likes tea"   -> 2
      [] line = UncertainLine   -> 3
      [] line = "- ok"          -> 4
      [] line = ForgetLine      -> 5
      [] line = NoUpdateLine    -> 6
      [] line = FenceLine       -> 7

\* len("\n".join(text))
RECURSIVE JoinLen(_)
JoinLen(text) ==
    IF text = <<>> THEN 0
    ELSE IF Len(text) = 1 THEN LineLen(text[1])
    ELSE LineLen(text[1]) + 1 + JoinLen(Tail(text))

\* sorted(S) for a set of lines
RECURSIVE SortedLines(_)
SortedLines(S) ==
    IF S = {} THEN <<>>
    ELSE LET least == CHOOSE l \in S : \A o \in S : LineRank(l) <= LineRank(o)
         IN  <<least>> \o SortedLines(S \ {least})

\* The lines of a text, as a set.
LineSet(text) == {text[i] : i \in 1..Len(text)}

\* Values of str | bool | None: False, None, or a text.
PyFalse == [kind |-> "False", lines |-> <<>>]
PyNone == [kind |-> "None", lines |-> <<>>]
PyStr(text) == [kind |-> "str", lines |-> text]
\* Truth value of such a value: a str is true unless it is empty.
Truthy(v) == v.kind = "str" /\ JoinLen(v.lines) > 0

\* What LLMClient.generate may give the extractor: a text of at most
\* MaxOutputLines lines, or an exception.
LLMRaised == [kind |-> "raise", lines |-> <<>>]
ExtractorOutputs ==
    {LLMRaised} \cup
    {PyStr(t) : t \in UNION {[1..n -> OutputLines] : n \in 0..MaxOutputLines}}

\* The removal of code fences followed by the line filter: blank lines and
\* lines with an uncertain keyword are dropped.
KeepLine(line) == line \notin {BlankLine, FenceLine, UncertainLine}
FilteredLines(text) == SelectSeq(text, KeepLine)

\* The merge of generate_memory_update: with a current memory the sorted
\* union of both line sets, otherwise the result as it is.
MergeMemory(current_memory, result) ==
    IF Truthy(current_memory)
    THEN PyStr(SortedLines(LineSet(current_memory.lines) \cup LineSet(result)))
    ELSE PyStr(result)

\* QueryPipeline.generate_memory_update for a non-empty recent_messages.
GenerateMemoryUpdate(current_memory, llm) ==
    IF llm.kind = "raise" THEN PyNone
    ELSE IF ForgetLine \in LineSet(llm.lines) THEN PyFalse
    ELSE IF NoUpdateLine \in LineSet(llm.lines) THEN PyNone
    ELSE IF JoinLen(FilteredLines(llm.lines)) < 5 THEN PyNone
    ELSE MergeMemory(current_memory, FilteredLines(llm.lines))

\* MemoryStorage over the user_memories table, whose primary key is user_id.
GetMemory(table, user_id) ==
    IF \E r \in table : r.user_id = user_id
    THEN PyStr((CHOOSE r \in table : r.user_id = user_id).memory)
    ELSE PyNone
DeleteMemory(table, user_id) == {r \in table : r.user_id # user_id}
UpdateMemory(table, user_id, text) ==
    {r \in table : r.user_id # user_id} \cup {[user_id |-> user_id, memory |-> text]}

\* Step 8.5 of send_message with is False replaced by a truth test:
\* None deletes the row as well.
ApplyMemoryUpdate_falsy(table, user_id, updated) ==
    IF ~Truthy(updated) THEN DeleteMemory(table, user_id)
    ELSE UpdateMemory(table, user_id, updated.lines)

\* Step 8.5 of send_message: what the returned value does to the table.
ApplyMemoryUpdate(table, user_id, updated) ==
    IF updated = PyFalse THEN DeleteMemory(table, user_id)
    ELSE IF Truthy(updated)
         THEN UpdateMemory(table, user_id, updated.lines)
         ELSE table

--------------------------------------------------------------------------
(* The memory steps of ChatService.send_message.  The conversation steps  *)
(* of a turn (NextChat) neither read nor write user_memories, and the      *)
(* extractor's answer is whatever its LLM writes, so the memory steps are  *)
(* followed on their own: step 3.5 reads the memory, the query pipeline    *)
(* answers or raises, and step 8.5 runs the extractor and applies its      *)
(* result in a session of its own.  Turns are sequential.                  *)

MemoryInit ==
    /\ memories = {}
    /\ memPc = "idle"
    /\ memUser = NoUser
    /\ user_memory = PyNone
    /\ llm_output = PyNone
    /\ updated_memory = PyNone
    /\ turns = 0

\* send_message is called and reaches step 3.5: get_memory(user_id).
MemRead ==
    /\ MemoryOnly
    /\ memPc \in {"idle", "done", "raised"}
    /\ turns < MaxTurns
    /\ turns' = turns + 1
    /\ \E user \in Users :
          /\ memUser' = user
          /\ user_memory' = GetMemory(memories, user)
    /\ llm_output' = PyNone
    /\ updated_memory' = PyNone
    /\ memPc' = "read"
    /\ UNCHANGED memories

\* generate_response raises: the exception leaves send_message before
\* step 8.5.
MemTurnRaises ==
    /\ MemoryOnly
    /\ memPc = "read"
    /\ memPc' = "raised"
    /\ UNCHANGED <<memories, memUser, user_memory, llm_output, updated_memory, turns>>

\* Step 8.5: generate_memory_update on the memory read in step 3.5, then
\* delete_memory or update_memory, and the call returns.
MemUpdate ==
    /\ MemoryOnly
    /\ memPc = "read"
    /\ \E llm \in ExtractorOutputs :
          /\ llm_output' = llm
          /\ updated_memory' = GenerateMemoryUpdate(user_memory, llm)
    /\ memories' = ApplyMemoryUpdate(memories, memUser, updated_memory')
    /\ memPc' = "done"
    /\ UNCHANGED <<memUser, user_memory, turns>>

NextMemory ==
    \/ MemRead
    \/ MemTurnRaises
    \/ MemUpdate

--------------------------------------------------------------------------
(* The memory steps of two chat turns of one user (send_message or        *)
(* stream_chat, whose memory steps are the same).  Each turn is a         *)
(* coroutine of the same event loop: it reads the memory in step 3.5,     *)
(* awaits the pipeline and the extractor, and writes in step 8.5 in a     *)
(* session of its own; the other turn can run at every await in between.  *)

OverlapTurns == {1, 2}
OverlapUser == "u1"

\* The memory texts the user can hold before the turns: what earlier
\* merges stored, the sorted lines of a set of facts.
StoredMemories == {SortedLines(S) : S \in SUBSET FactLines}

OverlapIdle ==
    /\ ovPc = [t \in OverlapTurns |-> "idle"]
    /\ ovRead = [t \in OverlapTurns |-> PyNone]
    /\ ovExtracted = [t \in OverlapTurns |-> {}]
    /\ ovForgot = [t \in OverlapTurns |-> FALSE]
    /\ ovBefore = {}
    /\ ovOverlapped = FALSE

\* The user holds any stored memory, or none, and no turn has started.
OverlapInit ==
    /\ \E text \in StoredMemories :
          /\ memories = IF text = <<>> THEN {}
                        ELSE UpdateMemory({}, OverlapUser, text)
          /\ ovBefore = LineSet(text)
    /\ memPc = "idle"
    /\ memUser = NoUser
    /\ user_memory = PyNone
    /\ llm_output = PyNone
    /\ updated_memory = PyNone
    /\ turns = 0
    /\ ovPc = [t \in OverlapTurns |-> "idle"]
    /\ ovRead = [t \in OverlapTurns |-> PyNone]
    /\ ovExtracted = [t \in OverlapTurns |-> {}]
    /\ ovForgot = [t \in OverlapTurns |-> FALSE]
    /\ ovOverlapped = FALSE

\* Step 3.5 of a turn: get_memory(user_id).
OverlapRead ==
    /\ OverlapOnly
    /\ \E t \in OverlapTurns :
          /\ ovPc[t] = "idle"
          /\ ovPc' = [ovPc EXCEPT ![t] = "read"]
          /\ ovRead' = [ovRead EXCEPT ![t] = GetMemory(memories, OverlapUser)]
          /\ ovOverlapped' =
                (ovOverlapped \/ \E o \in OverlapTurns \ {t} : ovPc[o] = "read")
    /\ UNCHANGED <<memories, ovExtracted, ovForgot, ovBefore>>

\* Step 8.5 of a turn: generate_memory_update on the memory the turn read,
\* then delete_memory or update_memory, committed.
OverlapUpdate ==
    /\ OverlapOnly
    /\ \E t \in OverlapTurns, llm \in ExtractorOutputs :
          LET updated == GenerateMemoryUpdate(ovRead[t], llm)
          IN  /\ ovPc[t] = "read"
              /\ ovPc' = [ovPc EXCEPT ![t] = "done"]
              /\ memories' = ApplyMemoryUpdate(memories, OverlapUser, updated)
              /\ ovForgot' = [ovForgot EXCEPT ![t] = (updated = PyFalse)]
              /\ ovExtracted' =
                    [ovExtracted EXCEPT ![t] =
                        IF Truthy(updated)
                        THEN LineSet(FilteredLines(llm.lines)) ELSE {}]
    /\ UNCHANGED <<ovRead, ovBefore, ovOverlapped>>

NextOverlap ==
    \/ OverlapRead
    \/ OverlapUpdate

--------------------------------------------------------------------------
(* TextChunker.chunk                                                       *)
(*                                                                         *)
(* A text is given by its parts: the paragraphs _split_by_separator        *)
(* returns, stripped and non-empty.  A part is the sequence of the pieces  *)
(* that re.split(r"([.!?]+\s+)", part) cuts it into: every piece but the   *)
(* last is a sentence with its terminator and the whitespace after it,     *)
(* and the last piece is the rest of the part after the last terminator,   *)
(* which is never empty because the part is stripped.  A piece is known    *)
(* by its place in the text, its length and the length of its trailing     *)
(* whitespace.  A buffer (current_chunk) is the sequence of the pieces,    *)
(* separators and overlap fragments it is made of.                         *)

PieceLens == {10, 30, 70}

Piece(p, k, len, ws) == [kind |-> "piece", part |-> p, k |-> k, len |-> len, ws |-> ws]
SeparatorTok == [kind |-> "sep", part |-> 0, k |-> 0, len |-> SeparatorLen, ws |-> 0]
SpaceTok == [kind |-> "space", part |-> 0, k |-> 0, len |-> 1, ws |-> 0]
\* current_chunk[-n:]: the last n characters of some buffer
OverlapTok(n) == [kind |-> "overlap", part |-> 0, k |-> 0, len |-> n, ws |-> 0]

\* The part number p whose pieces have the lengths lens.
MakePart(p, lens) ==
    [k \in 1..Len(lens) |->
        Piece(p, k, lens[k], IF k < Len(lens) THEN 1 ELSE 0)]

PartShapes == UNION {[1..n -> PieceLens] : n \in 1..MaxPieces}
Texts ==
    UNION {{[p \in 1..n |-> MakePart(p, shape[p])] : shape \in [1..n -> PartShapes]}
              : n \in 0..MaxParts}

\* The (chunk_size, chunk_overlap) pairs tried; validate_chunk_params
\* accepts them.
ValidChunkParams(size, overlap) ==
    /\ size >= MinChunkSize
    /\ size <= MaxChunkSize
    /\ overlap >= 0
    /\ overlap < size
ChunkParams == {c \in {50, 100} \X {0, 20} : ValidChunkParams(c[1], c[2])}

\* len(s) of a buffer or part
RECURSIVE TextLen(_)
TextLen(toks) ==
    IF toks = <<>> THEN 0 ELSE toks[1].len + TextLen(Tail(toks))

\* len(s.strip()) of a buffer: the whitespace that ends its last piece is
\* removed (a buffer begins with a piece or with an overlap fragment, here
\* taken to begin with a visible character).
StripLen(toks) ==
    IF toks = <<>> THEN 0 ELSE TextLen(toks) - toks[Len(toks)].ws

\* TextChunk(content=current_chunk.strip(), index=chunk_index, ...)
TextChunk(cur, index, start) ==
    [content |-> cur, length |-> StripLen(cur), index |-> index,
     start_char |-> start, end_char |-> start + TextLen(cur)]

\* The state of the loop: chunks, current_chunk, current_start, chunk_index.
LoopState(cs, cur, start, index) ==
    [chunks |-> cs, current_chunk |-> cur, current_start |-> start,
     chunk_index |-> index]

\* chunks.append(TextChunk(...)) without the chunk_index += 1 after it.
AppendChunk_sameIndex(st) ==
    [st EXCEPT !.chunks = Append(@, TextChunk(st.current_chunk, st.chunk_index,
                                              st.current_start))]

\* chunks.append(TextChunk(...)); chunk_index += 1
AppendChunk(st) ==
    [st EXCEPT !.chunks = Append(@, TextChunk(st.current_chunk, st.chunk_index,
                                              st.current_start)),
               !.chunk_index = @ + 1]

\* TextChunker._split_by_sentences: the loop pairs each sentence with its
\* terminator and stops before the last element of re.split's list, the
\* rest after the last terminator.
SplitBySentences(part) == SubSeq(part, 1, Len(part) - 1)

\* One turn of `for sentence in sentences`.
SentenceStep(st, sentence, size) ==
    IF TextLen(st.current_chunk) + sentence.len > size
    THEN LET saved == IF st.current_chunk # <<>> THEN AppendChunk(st) ELSE st
         IN  [saved EXCEPT !.current_chunk = <<sentence>>,
                           !.current_start = @ + sentence.len]
    ELSE [st EXCEPT !.current_chunk =
                IF @ # <<>> THEN @ \o <<SpaceTok, sentence>> ELSE <<sentence>>]

RECURSIVE PackSentences(_, _, _)
PackSentences(st, sentences, size) ==
    IF sentences = <<>> THEN st
    ELSE PackSentences(SentenceStep(st, sentences[1], size), Tail(sentences), size)

\* One turn of `for part in parts`.
PartStep(st, part, size, overlap) ==
    IF TextLen(st.current_chunk) + TextLen(part) + SeparatorLen > size
    THEN IF st.current_chunk # <<>>
         THEN LET saved == AppendChunk(st)
              IN  IF overlap > 0 /\ TextLen(st.current_chunk) > overlap
                  \* current_start is then set to itself
                  THEN [saved EXCEPT !.current_chunk =
                            <<OverlapTok(overlap), SeparatorTok>> \o part]
                  ELSE [saved EXCEPT !.current_chunk = part,
                                     !.current_start = @ + TextLen(part)]
         ELSE IF TextLen(part) > size
              THEN PackSentences(st, SplitBySentences(part), size)
              ELSE [st EXCEPT !.current_chunk = part,
                              !.current_start = @ + TextLen(part)]
    ELSE [st EXCEPT !.current_chunk =
                IF @ # <<>> THEN @ \o <<SeparatorTok>> \o part ELSE part]

\* The chunk rows process_document creates for the chunks of a document:
\* create_chunk is called with chunk.index as chunk_index.
CreateChunks(cs) ==
    [i \in 1..Len(cs) |-> [chunk_index |-> cs[i].index, content |-> cs[i].content]]

ChunkerInit ==
    /\ tcPc = "loop"
    /\ parts \in Texts
    /\ \E c \in ChunkParams : chunk_size = c[1] /\ chunk_overlap = c[2]
    /\ partIdx = 1
    /\ tcChunks = <<>>
    /\ current_chunk = <<>>
    /\ current_start = 0
    /\ chunk_index = 0

\* One iteration of the loop over the parts.
ChunkPart ==
    /\ ChunkerOnly
    /\ tcPc = "loop"
    /\ partIdx <= Len(parts)
    /\ LET st == PartStep(LoopState(tcChunks, current_chunk, current_start,
                                    chunk_index),
                          parts[partIdx], chunk_size, chunk_overlap)
       IN  /\ tcChunks' = st.chunks
           /\ current_chunk' = st.current_chunk
           /\ current_start' = st.current_start
           /\ chunk_index' = st.chunk_index
    /\ partIdx' = partIdx + 1
    /\ UNCHANGED <<tcPc, parts, chunk_size, chunk_overlap>>

\* After the loop: the final chunk is added and chunk() returns.  An empty
\* text returns at once with no chunk.
ChunkFinish ==
    /\ ChunkerOnly
    /\ tcPc = "loop"
    /\ partIdx > Len(parts)
    /\ tcChunks' = IF current_chunk # <<>>
                   THEN Append(tcChunks,
                               TextChunk(current_chunk, chunk_index, current_start))
                   ELSE tcChunks
    /\ tcPc' = "done"
    /\ UNCHANGED <<parts, chunk_size, chunk_overlap, partIdx, current_chunk,
                   current_start, chunk_index>>

NextChunker ==
    \/ ChunkPart
    \/ ChunkFinish

\* The state of the chunker when none of its calls is followed.
ChunkerIdle ==
    /\ tcPc = "done"
    /\ parts = <<>>
    /\ chunk_size = 512
    /\ chunk_overlap = 50
    /\ partIdx = 1
    /\ tcChunks = <<>>
    /\ current_chunk = <<>>
    /\ current_start = 0
    /\ chunk_index = 0

--------------------------------------------------------------------------
(* ResourceService.ChunkedUpload                                           *)
(*                                                                         *)
(* One call: the loop over the frames of the request stream, then the      *)
(* validation of size and checksum and the call of engine.add_resource.    *)
(* The bytes of a data frame are known by their number and by whether      *)
(* they are the bytes of the client's file; SHA-256 is taken to be free of *)
(* collisions.                                                             *)

NoChecksum == ""                   \* metadata.checksum left unset
FileDigest == "sha256(file)"       \* hex digest of the client's file
ReceivedDigest == "sha256(other)"  \* hex digest of any other bytes

NoneMetadata ==
    [present |-> FALSE, total_size |-> 0, checksum |-> NoChecksum,
     user_id |-> NoUser]

\* Frames of the request stream.
MetadataFrame(total_size, checksum, user) ==
    [kind |-> "metadata", chunk_index |-> 0, len |-> 0, intact |-> TRUE,
     is_last |-> FALSE, total_size |-> total_size, checksum |-> checksum,
     user_id |-> user]
DataFrame(index, len, intact, is_last) ==
    [kind |-> "data", chunk_index |-> index, len |-> len, intact |-> intact,
     is_last |-> is_last, total_size |-> 0, checksum |-> NoChecksum,
     user_id |-> NoUser]
EmptyFrame == [DataFrame(0, 0, TRUE, FALSE) EXCEPT !.kind = "empty"]
NoFrame == [DataFrame(0, 0, TRUE, FALSE) EXCEPT !.kind = "none"]

\* Declared sizes: one full frame, two full frames, more than the limit.
TotalSizes == {MAX_CHUNK_SIZE, 2 * MAX_CHUNK_SIZE, MAX_CHUNKED_FILE_SIZE + 1}
\* Data frames are full (the largest size accepted) or one byte too long.
DataLens == {MAX_CHUNK_SIZE, MAX_CHUNK_SIZE + 1}

\* The frames a client may send when `received` frames were accepted.
Frames(received) ==
    {MetadataFrame(t, c, "u1") : t \in TotalSizes, c \in {NoChecksum, FileDigest}}
    \cup {DataFrame(i, n, ok, last) :
            i \in {received, received + 1}, n \in DataLens,
            ok \in BOOLEAN, last \in BOOLEAN}
    \cup {EmptyFrame}

\* The locals of ChunkedUpload with the status code set and the position.
UploadState(pc, md, received, bytes, hash, code) ==
    [pc |-> pc, metadata |-> md, chunks_received |-> received,
     total_bytes |-> bytes, hasher |-> hash, code |-> code]

\* The size check of a data frame: len(chunk.data) > MAX_CHUNK_SIZE.
ChunkTooLarge(frame, bytes) == frame.len > MAX_CHUNK_SIZE

\* The index check of a data frame with the comparison left out.
OutOfOrder_never(frame, received) == FALSE

\* The index check of a data frame: chunk.chunk_index != chunks_received.
OutOfOrder(frame, received) == frame.chunk_index # received

\* The body of `async for chunk in request_iterator` for one frame, when
\* the deadline has passed (expired) or not.
FrameStep(st, frame, expired) ==
    IF st.chunks_received % DeadlineCheckEvery = 0 /\ ~CheckDeadline(expired)
    THEN [st EXCEPT !.pc = "returned", !.code = "DEADLINE_EXCEEDED"]
    ELSE IF st.chunks_received = 0
    THEN IF frame.kind # "metadata"
         THEN [st EXCEPT !.pc = "returned", !.code = "INVALID_ARGUMENT"]
         ELSE LET md == [present |-> TRUE, total_size |-> frame.total_size,
                         checksum |-> frame.checksum, user_id |-> frame.user_id]
              IN  IF md.total_size > MAX_CHUNKED_FILE_SIZE
                  THEN [st EXCEPT !.pc = "returned", !.code = "INVALID_ARGUMENT",
                                  !.metadata = md]
                  ELSE [st EXCEPT !.metadata = md, !.chunks_received = 1]
    ELSE IF frame.kind # "data"
    THEN st     \* logged and skipped
    ELSE IF OutOfOrder(frame, st.chunks_received)
    THEN [st EXCEPT !.pc = "returned", !.code = "INVALID_ARGUMENT"]
    ELSE IF ChunkTooLarge(frame, st.total_bytes)
    THEN [st EXCEPT !.pc = "returned", !.code = "INVALID_ARGUMENT"]
    ELSE [st EXCEPT !.total_bytes = @ + frame.len,
                    !.hasher = @ /\ frame.intact,
                    !.chunks_received = @ + 1,
                    !.pc = IF frame.is_last THEN "complete" ELSE "receiving"]

\* hasher.hexdigest(): the digest of the file only if the bytes hashed are
\* the file.
ComputedChecksums(hash) ==
    IF hash THEN {FileDigest, ReceivedDigest} ELSE {ReceivedDigest}

\* The checks after the loop without the comparison of the checksums.
ValidationCode_noChecksum(md, bytes, computed) ==
    IF ~md.present THEN "INVALID_ARGUMENT"
    ELSE IF bytes # md.total_size THEN "INVALID_ARGUMENT"
    ELSE "OK"

\* The checks after the loop: the status code set, OK when all pass.
ValidationCode(md, bytes, computed) ==
    IF ~md.present THEN "INVALID_ARGUMENT"
    ELSE IF bytes # md.total_size THEN "INVALID_ARGUMENT"
    ELSE IF md.checksum # NoChecksum /\ md.checksum # computed THEN "DATA_LOSS"
    ELSE "OK"

UploadInit ==
    /\ upPc = "receiving"
    /\ metadata = NoneMetadata
    /\ chunks_received = 0
    /\ total_bytes = 0
    /\ hasher = TRUE
    /\ upFrame = NoFrame
    /\ computed_checksum = NoChecksum
    /\ upExpired = FALSE
    /\ upCode = "OK"
    /\ upAdded = FALSE

\* The stream delivers a frame and the loop body runs on it.
UploadFrame ==
    /\ UploadOnly
    /\ upPc = "receiving"
    /\ chunks_received < MaxFrames
    /\ \E frame \in Frames(chunks_received),
          expired \in (IF upExpired THEN {TRUE} ELSE BOOLEAN) :
          LET st == FrameStep(UploadState(upPc, metadata, chunks_received,
                                          total_bytes, hasher, upCode),
                              frame, expired)
          IN  /\ upFrame' = frame
              /\ upExpired' = expired
              /\ upPc' = st.pc
              /\ metadata' = st.metadata
              /\ chunks_received' = st.chunks_received
              /\ total_bytes' = st.total_bytes
              /\ hasher' = st.hasher
              /\ upCode' = st.code
    /\ UNCHANGED <<jobs, documents, upAdded, computed_checksum>>

\* The parameters of IntelligenceEngine.add_resource; none has a default.
AddResourceParams ==
    {"user_id", "resource_id", "url", "text", "file_content", "title",
     "metadata", "config", "resource_type"}

\* The keyword arguments ChunkedUpload calls engine.add_resource with.
ChunkedUploadKwargs ==
    {"user_id", "resource_id", "file_content", "title", "metadata", "config",
     "resource_type"}

\* The keywords of classify_grpc_error found in the message of the
\* TypeError for missing arguments ("add_resource() missing 2 required
\* positional arguments: 'url' and 'text'"): none.
MissingArgumentsMessage == {}

\* classify_grpc_error: `in` tests on the lower-cased message and the type
\* name, first match wins.
ClassifyGrpcError(msg, type) ==
    IF "not found" \in msg \/ "does not exist" \in msg THEN "NOT_FOUND"
    ELSE IF "permission" \in msg \/ "unauthorized" \in msg
            \/ "access denied" \in msg
    THEN "PERMISSION_DENIED"
    ELSE IF "invalid" \in msg \/ "validation" \in msg \/ type = "ValueError"
    THEN "INVALID_ARGUMENT"
    ELSE IF "timeout" \in msg \/ "deadline" \in msg THEN "DEADLINE_EXCEEDED"
    ELSE IF "rate" \in msg \/ "quota" \in msg \/ "exhausted" \in msg
    THEN "RESOURCE_EXHAUSTED"
    ELSE IF "already exists" \in msg \/ "duplicate" \in msg
    THEN "ALREADY_EXISTS"
    ELSE IF "unavailable" \in msg \/ "connection" \in msg THEN "UNAVAILABLE"
    ELSE "INTERNAL"

\* engine.add_resource called with the keyword arguments kwargs: a call
\* that leaves out a parameter raises TypeError before the body runs.
CallAddResource(js, docs, kwargs, user, d, rid, jid) ==
    IF kwargs # AddResourceParams
    THEN [jobs |-> js, documents |-> docs, raised |-> "TypeError"]
    ELSE LET r == AddResourceEngine(js, docs, user, d, rid, jid)
         IN  [jobs |-> r.jobs, documents |-> r.documents, raised |-> "none"]

\* The loop is over (is_last, or the stream ended): size and checksum are
\* validated and, when they pass, engine.add_resource is called; what the
\* call raises is classified by the handler's except clause.
UploadFinish ==
    /\ UploadOnly
    /\ upPc \in {"receiving", "complete"}
    /\ \E computed \in ComputedChecksums(hasher) :
          LET code == ValidationCode(metadata, total_bytes, computed)
              sized == metadata.present /\ total_bytes = metadata.total_size
          IN  /\ computed_checksum' = IF sized THEN computed ELSE NoChecksum
              /\ IF code # "OK"
                 THEN /\ upCode' = code
                      /\ UNCHANGED <<jobs, documents, upAdded>>
                 ELSE /\ upAdded' = TRUE
                      /\ \E d \in {x \in DocInputs : x.content # "empty"},
                            jid \in JobIds \ DOMAIN jobs :
                            LET r == CallAddResource(jobs, documents,
                                                     ChunkedUploadKwargs,
                                                     metadata.user_id, d, 1, jid)
                            IN  /\ jobs' = r.jobs
                                /\ documents' = r.documents
                                /\ upCode' =
                                      IF r.raised = "none" THEN "OK"
                                      ELSE ClassifyGrpcError(
                                               MissingArgumentsMessage, r.raised)
    /\ upFrame' = NoFrame
    /\ upPc' = "returned"
    /\ UNCHANGED <<metadata, chunks_received, total_bytes, hasher, upExpired>>

NextUpload ==
    \/ UploadFrame
    \/ UploadFinish

--------------------------------------------------------------------------
(* ChatService.get_conversation (engine/chat/service.py) read page by     *)
(* page.  A cursor is a string; the empty string stands for no cursor,    *)
(* which the code treats alike (`if cursor:`).  Strings are sequences of  *)
(* characters here, so that str() and int() are computed.                 *)

DigitChars == <<"0", "1", "2", "3", "4", "5", "6", "7", "8", "9">>
NoCursor == <<>>

\* str(n) for n >= 0: the decimal digits.
RECURSIVE Str(_)
Str(n) ==
    IF n < 10 THEN <<DigitChars[n + 1]>>
    ELSE Str(n \div 10) \o <<DigitChars[(n % 10) + 1]>>

DigitValue(c) == CHOOSE d \in 0..9 : DigitChars[d + 1] = c

RECURSIVE DecimalValue(_)
DecimalValue(text) ==
    IF text = <<>> THEN 0
    ELSE 10 * DecimalValue(SubSeq(text, 1, Len(text) - 1))
           + DigitValue(text[Len(text)])

\* int(cursor): the value of a string of digits, ValueError otherwise.
PyInt(text) ==
    IF text # <<>> /\ \A i \in 1..Len(text) : \E d \in 1..10 : DigitChars[d] = text[i]
    THEN [raised |-> "none", value |-> DecimalValue(text)]
    ELSE [raised |-> "ValueError", value |-> 0]

\* The offset get_conversation reads from: 0 without a cursor or when the
\* cursor does not parse.
CursorOffset(cursor) ==
    IF cursor = NoCursor THEN 0
    ELSE LET parsed == PyInt(cursor)
         IN  IF parsed.raised = "none" THEN parsed.value ELSE 0

\* ConversationStorage.get_messages(conversation_id, limit, offset): the
\* rows the query may return, as row numbers.
GetMessagesPage(msgs, cid, limit, offset) ==
    {SubSeq(o, offset + 1, IF Len(o) < offset + limit THEN Len(o) ELSE offset + limit)
        : o \in OrderedByCreatedAt(msgs, ConvRows(msgs, cid))}

EmptyConversationResponse == [messages |-> <<>>, next_cursor |-> NoCursor]

\* The responses get_conversation may give.
GetConversation(msgs, convs, user_id, cid, limit, cursor) ==
    IF cid = BadConvId THEN {EmptyConversationResponse}
    ELSE IF convs[cid] = NoUser THEN {EmptyConversationResponse}
    ELSE IF convs[cid] # user_id THEN {EmptyConversationResponse}
    ELSE LET offset == CursorOffset(cursor)
         IN  {LET has_more == Len(m) > limit
              IN  [messages |-> IF has_more THEN SubSeq(m, 1, limit) ELSE m,
                   next_cursor |-> IF has_more THEN Str(offset + limit)
                                   ELSE NoCursor]
                 : m \in GetMessagesPage(msgs, cid, limit + 1, offset)}

\* The messages table after n turns, turn t in conversation convOf[t]:
\* the two messages of a turn are inserted in one transaction and carry
\* the same created_at.
RECURSIVE StoredTurns(_, _)
StoredTurns(n, convOf) ==
    IF n = 0 THEN <<>>
    ELSE AddMessage(AddMessage(StoredTurns(n - 1, convOf), convOf[n], "user", n),
                    convOf[n], "assistant", n)

PageLimits == {1, 2, 3}
\* Cursors of a first call: none, one that does not parse, and "0".
FirstCursors == {NoCursor, <<"x">>, Str(0)}

\* The owner of a conversation, NoUser when there is no such row.
ConvOwner(convs, cid) == IF cid \in DOMAIN convs THEN convs[cid] ELSE NoUser

\* The conversation c1 of u1 and, when it exists, c2 of u2 hold the
\* messages of some turns.
PagesInit ==
    /\ \E owner2 \in {"u2", NoUser} :
          /\ conversations = [c \in ConvIds |-> IF c = "c1" THEN "u1" ELSE owner2]
          /\ \E n \in 0..MaxStoredTurns :
                \E convOf \in [1..n -> {c \in ConvIds : conversations[c] # NoUser}] :
                    /\ clock = n
                    /\ messages = StoredTurns(n, convOf)
    /\ chPc = "idle"
    /\ chUser = NoUser
    /\ chArg = NoConv
    /\ chConv = NoConv
    /\ chCreated = FALSE
    /\ chPrior = 0
    /\ chHistory = <<>>
    /\ chResponse = "none"
    /\ lastRead = <<>>
    /\ pgPc = "idle"
    /\ pgCode = "OK"
    /\ pgUser = NoUser
    /\ pgConv = NoConv
    /\ pgLimit = 1
    /\ pgAsked = NoCursor
    /\ pgPage = EmptyConversationResponse
    /\ pgVisited = <<>>

\* No client is reading pages.
PagesIdle ==
    /\ pgPc = "idle"
    /\ pgCode = "OK"
    /\ pgUser = NoUser
    /\ pgConv = NoConv
    /\ pgLimit = 1
    /\ pgAsked = NoCursor
    /\ pgPage = EmptyConversationResponse
    /\ pgVisited = <<>>

\* ChatService.GetConversation called after the request's deadline: the
\* engine is not reached.
PageExpired ==
    /\ PagesOnly
    /\ pgPc \in {"idle", "paging"}
    /\ ~CheckDeadline(TRUE)
    /\ \E user \in Users, cid \in ConvIds \cup {BadConvId} :
          /\ pgUser' = IF pgPc = "idle" THEN user ELSE pgUser
          /\ pgConv' = IF pgPc = "idle" THEN cid ELSE pgConv
    /\ pgAsked' = IF pgPc = "idle" THEN NoCursor ELSE pgPage.next_cursor
    /\ pgPage' = EmptyConversationResponse
    /\ pgCode' = "DEADLINE_EXCEEDED"
    /\ pgPc' = "expired"
    /\ UNCHANGED <<pgLimit, pgVisited>>

\* The client asks for the first page; the engine's response is returned
\* and no status code is set.
PageFirst ==
    /\ PagesOnly
    /\ pgPc = "idle"
    /\ pgCode' = "OK"
    /\ \E user \in Users, cid \in ConvIds \cup {BadConvId}, limit \in PageLimits,
          cursor \in FirstCursors :
          \E r \in GetConversation(messages, conversations, user, cid, limit,
                                   cursor) :
              /\ pgUser' = user
              /\ pgConv' = cid
              /\ pgLimit' = limit
              /\ pgAsked' = cursor
              /\ pgPage' = r
              /\ pgVisited' = r.messages
              /\ pgPc' = IF r.next_cursor = NoCursor THEN "done" ELSE "paging"

\* The client asks for the page at the next_cursor it was given.
PageNext ==
    /\ PagesOnly
    /\ pgPc = "paging"
    /\ \E r \in GetConversation(messages, conversations, pgUser, pgConv, pgLimit,
                                pgPage.next_cursor) :
          /\ pgAsked' = pgPage.next_cursor
          /\ pgPage' = r
          /\ pgVisited' = pgVisited \o r.messages
          /\ pgPc' = IF r.next_cursor = NoCursor THEN "done" ELSE "paging"
    /\ UNCHANGED <<pgCode, pgUser, pgConv, pgLimit>>

NextPages ==
    \/ PageFirst
    \/ PageNext
    \/ PageExpired

--------------------------------------------------------------------------
(* EmbeddingModel.encode_query on the threads of the default executor
   (engine/embedding/models.py) *)

CacheSize == 2
MaxWorkers == 2
MaxEncodeCalls == 3

\* The threads run_in_executor(None, ...) hands the calls to.
Workers == 1..MaxWorkers

\* Distinct query strings, one more than the cache may hold.
Queries == 1..(CacheSize + 1)
NoQuery == 0

\* model.encode([prefixed_query])[0]: the vector of a query.
Embedding(q) == <<"embedding", q>>
NoEmbedding == <<"embedding", NoQuery>>

\* self._cache[query] = embedding
CachePut(c, q, e) == [k \in DOMAIN c \cup {q} |-> IF k = q THEN e ELSE c[k]]

\* len(self._cache) < self.config.cache_size
HasRoom(c) == Cardinality(DOMAIN c) < CacheSize

CacheIdle ==
    /\ cache = << >>
    /\ eqPc = [w \in Workers |-> "idle"]
    /\ eqQuery = [w \in Workers |-> NoQuery]
    /\ eqResult = [w \in Workers |-> NoEmbedding]
    /\ eqCalls = 0

\* A worker thread starts encode_query(query) and looks the query up:
\* a hit returns the cached vector, a miss goes on to the model.
EncodeQueryLookup(w) ==
    /\ eqPc[w] \in {"idle", "returned"}
    /\ eqCalls < MaxEncodeCalls
    /\ eqCalls' = eqCalls + 1
    /\ \E q \in Queries :
          /\ eqQuery' = [eqQuery EXCEPT ![w] = q]
          /\ IF q \in DOMAIN cache
               THEN /\ eqResult' = [eqResult EXCEPT ![w] = cache[q]]
                    /\ eqPc' = [eqPc EXCEPT ![w] = "returned"]
               ELSE /\ eqResult' = [eqResult EXCEPT ![w] = NoEmbedding]
                    /\ eqPc' = [eqPc EXCEPT ![w] = "encoding"]
    /\ UNCHANGED cache
    /\ CacheOnly

\* The model computes the vector, and the thread then tests
\* len(self._cache) < cache_size.
EncodeQueryCheckRoom(w) ==
    /\ eqPc[w] = "encoding"
    /\ eqResult' = [eqResult EXCEPT ![w] = Embedding(eqQuery[w])]
    /\ eqPc' = [eqPc EXCEPT ![w] = IF HasRoom(cache) THEN "storing" ELSE "full"]
    /\ UNCHANGED <<cache, eqQuery, eqCalls>>
    /\ CacheOnly

\* The test passed: the thread stores the vector and returns it.
EncodeQueryStore(w) ==
    /\ eqPc[w] = "storing"
    /\ cache' = CachePut(cache, eqQuery[w], eqResult[w])
    /\ eqPc' = [eqPc EXCEPT ![w] = "returned"]
    /\ UNCHANGED <<eqQuery, eqResult, eqCalls>>
    /\ CacheOnly

\* The test failed: the thread returns the vector without storing it.
EncodeQuerySkip(w) ==
    /\ eqPc[w] = "full"
    /\ eqPc' = [eqPc EXCEPT ![w] = "returned"]
    /\ UNCHANGED <<cache, eqQuery, eqResult, eqCalls>>
    /\ CacheOnly

NextCache ==
    \/ \E w \in Workers : EncodeQueryLookup(w)
    \/ \E w \in Workers : EncodeQueryCheckRoom(w)
    \/ \E w \in Workers : EncodeQueryStore(w)
    \/ \E w \in Workers : EncodeQuerySkip(w)

--------------------------------------------------------------------------
(* WebCrawler.crawl (engine/ingestion/crawler.py) *)

MaxUrls == 3
MaxLinks == 2
MaxSitemap == 2
MaxDepthSetting == 1

Url(domain, kind, n) == [domain |-> domain, path |-> <<kind, n>>]

\* The pages of the crawled site, a page of another site, and the two
\* sitemap addresses of the crawled site.
PageUrls == {Url("site", "page", n) : n \in 1..MaxUrls}
ExternalUrl == Url("elsewhere", "page", 1)
SitemapXml == Url("site", "sitemap.xml", 0)
SitemapIndexXml == Url("site", "sitemap_index.xml", 0)
StartUrl == Url("site", "page", 1)

AllUrls == PageUrls \cup {ExternalUrl, SitemapXml, SitemapIndexXml}

\* What an anchor of a page or a <loc> of a sitemap can name.
LinkTargets == PageUrls \cup {ExternalUrl, SitemapXml}

ListsUpTo(S, n) == UNION {[1..k -> S] : k \in 0..n}

\* The settings of a crawler.
CrawlerSettings ==
    [max_pages : 1..MaxUrls, max_depth : 0..MaxDepthSetting,
     same_domain_only : BOOLEAN]

\* _get_domain: urlparse(url).netloc
GetDomain(url) == url.domain

\* _extract_links: the absolute URLs of the anchors, in document order,
\* without those of another domain when same_domain_only is set.
ExtractLinks(anchors, same_domain_only, start_domain) ==
    SelectSeq(anchors,
              LAMBDA u : ~(same_domain_only /\ GetDomain(u) # start_domain))

\* The first n elements of a list: list[:n]
Prefix(list, n) == SubSeq(list, 1, IF Len(list) < n THEN Len(list) ELSE n)

\* Lines 75-79: the sitemap's URLs are queued at depth 0, none is compared
\* with discovered.
SitemapEntries(sitemap_urls, settings, start_domain) ==
    LET kept == SelectSeq(Prefix(sitemap_urls, settings.max_pages),
                   LAMBDA u : ~(settings.same_domain_only
                                /\ GetDomain(u) # start_domain))
    IN  [i \in 1..Len(kept) |-> <<kept[i], 0>>]

UrlsOf(entries) == {entries[i][1] : i \in 1..Len(entries)}

\* Lines 127-130: each link that is neither discovered nor visited is
\* queued one level deeper and becomes discovered.
RECURSIVE Discover(_, _, _, _, _)
Discover(new_urls, depth, q, disc, vis) ==
    IF new_urls = <<>> THEN [queue |-> q, discovered |-> disc]
    ELSE LET new_url == Head(new_urls)
         IN  IF new_url \notin disc /\ new_url \notin vis
             THEN Discover(Tail(new_urls), depth,
                           Append(q, <<new_url, depth + 1>>),
                           disc \cup {new_url}, vis)
             ELSE Discover(Tail(new_urls), depth, q, disc, vis)

Requested(req, url) == [req EXCEPT ![url] = @ + 1]

CrawlIdle ==
    /\ crPc = "idle"
    /\ crSettings = [max_pages |-> 1, max_depth |-> 0, same_domain_only |-> TRUE]
    /\ visited = {}
    /\ discovered = {}
    /\ queue = <<>>
    /\ pages = <<>>
    /\ requests = [u \in AllUrls |-> 0]

\* The queue after lines 64-84, for the list the sitemap lookup gave.
InitialQueue(sitemap_urls, settings) ==
    LET entries == SitemapEntries(sitemap_urls, settings, GetDomain(StartUrl))
    IN  IF StartUrl \notin UrlsOf(entries)
        THEN Append(entries, <<StartUrl, 0>>)
        ELSE entries

\* crawl(start_url) without the sitemap.
CrawlStart ==
    /\ crPc = "idle"
    /\ \E settings \in CrawlerSettings : crSettings' = settings
    /\ queue' = <<<<StartUrl, 0>>>>
    /\ discovered' = {StartUrl}
    /\ visited' = {}
    /\ pages' = <<>>
    /\ crPc' = "crawling"
    /\ UNCHANGED requests
    /\ CrawlOnly

\* crawl(start_url, follow_sitemap=True): /sitemap.xml is requested, and
\* /sitemap_index.xml when the first gave no 200; the list that was
\* found, if any, is queued before the start URL.
CrawlStartWithSitemap ==
    /\ crPc = "idle"
    /\ \E settings \in CrawlerSettings, first_ok \in BOOLEAN,
          sitemap_urls \in ListsUpTo(LinkTargets, MaxSitemap) :
          /\ crSettings' = settings
          /\ requests' = IF first_ok THEN Requested(requests, SitemapXml)
                         ELSE Requested(Requested(requests, SitemapXml),
                                        SitemapIndexXml)
          /\ queue' = InitialQueue(sitemap_urls, settings)
          /\ discovered' = UrlsOf(InitialQueue(sitemap_urls, settings))
    /\ visited' = {}
    /\ pages' = <<>>
    /\ crPc' = "crawling"
    /\ CrawlOnly

LoopRuns == queue # <<>> /\ Len(pages) < crSettings.max_pages

\* A turn of the loop on an entry that is visited or too deep.
CrawlSkip ==
    /\ crPc = "crawling"
    /\ LoopRuns
    /\ Head(queue)[1] \in visited \/ Head(queue)[2] > crSettings.max_depth
    /\ queue' = Tail(queue)
    /\ UNCHANGED <<crPc, crSettings, visited, discovered, pages, requests>>
    /\ CrawlOnly

\* A turn of the loop whose request fails or gives an error status.
CrawlFetchFails ==
    /\ crPc = "crawling"
    /\ LoopRuns
    /\ Head(queue)[1] \notin visited
    /\ Head(queue)[2] <= crSettings.max_depth
    /\ requests' = Requested(requests, Head(queue)[1])
    /\ queue' = Tail(queue)
    /\ UNCHANGED <<crPc, crSettings, visited, discovered, pages>>
    /\ CrawlOnly

\* A turn of the loop whose request succeeds: the page is recorded and its
\* links are discovered.
CrawlFetchOk ==
    /\ crPc = "crawling"
    /\ LoopRuns
    /\ LET url == Head(queue)[1]
           depth == Head(queue)[2]
       IN  /\ url \notin visited
           /\ depth <= crSettings.max_depth
           /\ requests' = Requested(requests, url)
           /\ visited' = visited \cup {url}
           /\ pages' = Append(pages, [url |-> url, depth |-> depth])
           /\ \E anchors \in ListsUpTo(LinkTargets, MaxLinks) :
                 LET new_urls == ExtractLinks(anchors, crSettings.same_domain_only,
                                              GetDomain(StartUrl))
                     found == IF depth < crSettings.max_depth
                              THEN Discover(new_urls, depth, Tail(queue),
                                            discovered, visited')
                              ELSE [queue |-> Tail(queue),
                                    discovered |-> discovered]
                 IN  /\ queue' = found.queue
                     /\ discovered' = found.discovered
    /\ UNCHANGED <<crPc, crSettings>>
    /\ CrawlOnly

\* The loop ends and crawl returns pages.
CrawlReturn ==
    /\ crPc = "crawling"
    /\ ~LoopRuns
    /\ crPc' = "returned"
    /\ UNCHANGED <<crSettings, visited, discovered, queue, pages, requests>>
    /\ CrawlOnly

NextCrawl ==
    \/ CrawlStart
    \/ CrawlStartWithSitemap
    \/ CrawlSkip
    \/ CrawlFetchFails
    \/ CrawlFetchOk
    \/ CrawlReturn

--------------------------------------------------------------------------
(* retry_async (engine/ingestion/retry.py) *)

DefaultMaxRetries == 3
BaseDelay == 1
MaxDelay == 60
ExponentialBase == 2
MaxRetriesSetting == 3

\* The values of max_retries a caller passes.
RetrySettings == 0..MaxRetriesSetting

\* The exception classes func raises, each with the classes it inherits from.
Bases ==
    [ConnectError |-> {"ConnectError", "NetworkError", "TransportError"},
     ReadError |-> {"ReadError", "NetworkError", "TransportError"},
     ReadTimeout |-> {"ReadTimeout", "TimeoutException", "TransportError"},
     RemoteProtocolError |-> {"RemoteProtocolError", "ProtocolError", "TransportError"},
     ConnectionResetError |-> {"ConnectionResetError", "ConnectionError", "OSError"},
     TimeoutError |-> {"TimeoutError", "OSError"},
     HTTPStatusError |-> {"HTTPStatusError", "HTTPError"},
     ValueError |-> {"ValueError"}]

StatusCodes == {404, 429, 499, 500, 599, 600}
NoStatus == 0
NoException == [type |-> "None", status_code |-> NoStatus, raised_at |-> NoneInt]

\* The errors one invocation of func can raise; raised_at tells the
\* instances of different invocations apart.
RaisedErrors(n) ==
    {[type |-> t, status_code |-> NoStatus, raised_at |-> n] :
        t \in DOMAIN Bases \ {"HTTPStatusError"}}
    \cup {[type |-> "HTTPStatusError", status_code |-> c, raised_at |-> n] :
            c \in StatusCodes}

IsInstance(error, classes) == Bases[error.type] \cap classes # {}

RetriableClasses ==
    {"ConnectError", "TimeoutException", "NetworkError", "ConnectionError",
     "TimeoutError"}

is_retriable_error(error) ==
    IF IsInstance(error, RetriableClasses) THEN TRUE
    ELSE IF IsInstance(error, {"HTTPStatusError"})
         THEN (500 <= error.status_code /\ error.status_code < 600)
              \/ error.status_code = 429
         ELSE FALSE

RECURSIVE Power(_, _)
Power(b, e) == IF e = 0 THEN 1 ELSE b * Power(b, e - 1)

\* 0.5 + random.random(), in tenths: the ends of [0.5, 1.5) and the middle.
JitterTenths == {5, 10, 14}

\* delay = min(base_delay * exponential_base ** attempt, max_delay), then
\* the jitter factor; in tenths of a second.
BackoffDelay(n, jitter) ==
    LET delay == BaseDelay * Power(ExponentialBase, n)
    IN  (IF delay < MaxDelay THEN delay ELSE MaxDelay) * jitter

\* range(max_retries + 1)
AttemptRange(m) == 0..m

LastAttempt_oneMore(n, m) == n = m + 1

\* "if attempt == max_retries: break", which is also where the range ends.
LastAttempt(n, m) == n = m \/ n + 1 \notin AttemptRange(m)

RetryError_noCause(cause) == [type |-> "RetryError", cause |-> NoException]

\* raise RetryError(...) from last_exception
RetryError(cause) == [type |-> "RetryError", cause |-> cause]

RetryIdle ==
    /\ rtPc = "idle"
    /\ max_retries = NoneInt
    /\ attempt = NoneInt
    /\ last_exception = NoException
    /\ rtCalls = 0
    /\ rtDelay = 0
    /\ rtOutcome = [kind |-> "none"]

\* retry_async(func, max_retries = m) is called and enters its loop.
RetryCall ==
    /\ rtPc = "idle"
    /\ \E m \in RetrySettings : max_retries' = m
    /\ attempt' = 0
    /\ rtPc' = "attempting"
    /\ UNCHANGED <<last_exception, rtCalls, rtDelay, rtOutcome>>
    /\ RetryOnly

\* One turn of the loop in which func returns.
RetryAttemptReturns ==
    /\ rtPc = "attempting"
    /\ rtCalls' = rtCalls + 1
    /\ rtOutcome' = [kind |-> "returned", value |-> attempt]
    /\ rtPc' = "returned"
    /\ UNCHANGED <<max_retries, attempt, last_exception, rtDelay>>
    /\ RetryOnly

\* One turn of the loop in which func raises e: raise it, give up with
\* RetryError, or sleep and go round again.
RetryAttemptRaises ==
    /\ rtPc = "attempting"
    /\ rtCalls' = rtCalls + 1
    /\ \E e \in RaisedErrors(attempt) :
          /\ last_exception' = e
          /\ IF ~is_retriable_error(e)
               THEN /\ rtOutcome' = [kind |-> "raised", error |-> e]
                    /\ rtPc' = "raised"
                    /\ UNCHANGED <<attempt, rtDelay>>
               ELSE IF LastAttempt(attempt, max_retries)
                    THEN /\ rtOutcome' = [kind |-> "raised", error |-> RetryError(e)]
                         /\ rtPc' = "raised"
                         /\ UNCHANGED <<attempt, rtDelay>>
                    ELSE /\ \E j \in JitterTenths :
                               rtDelay' = BackoffDelay(attempt, j)
                         /\ attempt' = attempt + 1
                         /\ UNCHANGED <<rtPc, rtOutcome>>
    /\ UNCHANGED max_retries
    /\ RetryOnly

NextRetry ==
    \/ RetryCall
    \/ RetryAttemptReturns
    \/ RetryAttemptRaises

--------------------------------------------------------------------------
\* The service starts on a documents table with any stored rows.
ResourceInit ==
    /\ StreamInit
    /\ ChatInit
    /\ jobs = <<>>
    /\ documents \in StoredDocuments
    /\ bPc = "idle"
    /\ bUser = NoUser
    /\ bDocs = <<>>
    /\ bJob = NoJob
    /\ idx = 0
    /\ attempted = <<>>
    /\ failedDocs = {}
    /\ cPc = "idle"
    /\ cJob = NoJob
    /\ cUser = NoUser
    /\ cSeen = "none"
    /\ cResult = [success |-> FALSE, message |-> <<>>]
    /\ listed = [user_id |-> NoUser, items |-> {}]
    /\ delResult = [resource_id |-> 0, user_id |-> NoUser, success |-> FALSE]
    /\ StreamChatInit
    /\ MemoryInit
    /\ ChunkerIdle
    /\ UploadInit
    /\ PagesIdle
    /\ StatusIdle
    /\ OverlapIdle
    /\ RetryIdle
    /\ CacheIdle
    /\ CrawlIdle

Init ==
    /\ StreamInit
    /\ ChatInit
    /\ IngestInit
    /\ StreamChatInit
    /\ MemoryInit
    /\ ChunkerIdle
    /\ UploadInit
    /\ PagesIdle
    /\ StatusIdle
    /\ OverlapIdle
    /\ RetryIdle
    /\ CacheIdle
    /\ CrawlIdle

\* One call of TextChunker.chunk on any text and valid parameters.
InitChunker ==
    /\ StreamInit
    /\ ChatInit
    /\ IngestInit
    /\ StreamChatInit
    /\ MemoryInit
    /\ ChunkerInit
    /\ UploadInit
    /\ PagesIdle
    /\ StatusIdle
    /\ OverlapIdle
    /\ RetryIdle
    /\ CacheIdle
    /\ CrawlIdle

\* Two chat turns of a user who holds any memory.
InitOverlap ==
    /\ StreamInit
    /\ ChatInit
    /\ IngestInit
    /\ StreamChatInit
    /\ OverlapInit
    /\ ChunkerIdle
    /\ UploadInit
    /\ PagesIdle
    /\ StatusIdle
    /\ RetryIdle
    /\ CacheIdle
    /\ CrawlIdle

\* A client reads a stored conversation page by page.
InitPages ==
    /\ StreamInit
    /\ IngestInit
    /\ StreamChatInit
    /\ MemoryInit
    /\ ChunkerIdle
    /\ UploadInit
    /\ PagesInit
    /\ StatusIdle
    /\ OverlapIdle
    /\ RetryIdle
    /\ CacheIdle
    /\ CrawlIdle

SpecStream == Init /\ [][NextStream]_vars

SpecChat == Init /\ [][NextChat]_vars

\* process_batch with cancel_ingestion calls arriving at any moment.
Spec == Init /\ [][NextIngest]_vars

\* process_batch alone; its coroutine is always resumed.
SpecBatch == Init /\ [][NextBatch]_vars /\ WF_vars(NextBatch)

SpecJob == Init /\ [][NextJob]_vars

\* One StreamChat call; every generator that is asked for its next item
\* is resumed.
SpecStreamChat ==
    Init /\ [][NextStreamChat]_vars /\ WF_vars(NextStreamChat)

\* AddResource, ListResources and DeleteResource calls in any order.
SpecResource == ResourceInit /\ [][NextResource]_vars

\* The memory steps of successive send_message calls.
SpecMemory == Init /\ [][NextMemory]_vars

\* TextChunker.chunk applied to a text.
SpecChunker == InitChunker /\ [][NextChunker]_vars

\* One ChunkedUpload call on any stream of frames.
SpecUpload == Init /\ [][NextUpload]_vars

\* The memory steps of two chat turns of one user, in any interleaving.
SpecOverlap == InitOverlap /\ [][NextOverlap]_vars

\* AddResource calls and then one GetResourceStatus call.
SpecStatus == ResourceInit /\ [][NextStatus]_vars

\* get_conversation calls following next_cursor on an unchanged conversation.
SpecPages == InitPages /\ [][NextPages]_vars

\* One call of retry_async on an operation that returns or raises at will.
SpecRetry == Init /\ [][NextRetry]_vars

\* Concurrent encode_query calls on the executor's threads.
SpecCache == Init /\ [][NextCache]_vars

\* One crawl of a site whose pages and sitemap hold any links.
SpecCrawl == Init /\ [][NextCrawl]_vars

--------------------------------------------------------------------------
(* Claims about the streaming query pipeline (SpecStream) *)

Ended == sPc \in {"done", "raised"}

TokensFollowSources(ev) ==
    \A i \in 1..Len(ev) :
        ev[i] = "token" => \E j \in 1..(i - 1) : ev[j] = "sources"

C2_Original ==
    sPc = "done" =>
        /\ Len(events) > 0
        /\ Last(events) \in {"metrics", "error"}
        /\ Count(events, "metrics") + Count(events, "error") = 1
        /\ (Last(events) = "error") <=> llm_failed

--------------------------------------------------------------------------
(* Claims about the chat session (SpecChat) *)

\* Position of row m in the sequence of row numbers o (0 when absent).
Pos(o, m) == IF \E i \in 1..Len(o) : o[i] = m
             THEN CHOOSE i \in 1..Len(o) : o[i] = m
             ELSE 0

\* C3 (as stated): after send_message returned, reading the conversation
\* in its stored order yields the turn's user message before the turn's
\* assistant message, both after every message the conversation held
\* before the call.
C3_Original ==
    (chPc = "done" /\ lastRead # <<>>) =>
        LET u == chPrior + 1
            a == chPrior + 2
        IN  /\ Pos(lastRead, u) > 0
            /\ Pos(lastRead, u) < Pos(lastRead, a)
            /\ \A m \in ConvRows(messages, chConv) :
                   m <= chPrior => Pos(lastRead, m) < Pos(lastRead, u)

--------------------------------------------------------------------------
(* Claims about ingestion jobs (Spec, SpecBatch, SpecJob) *)

Processed(j) == j.processed_documents
Failed(j) == j.failed_documents
Terminal(status) == status \in {"completed", "partial", "failed", "cancelled"}
BatchJob == jobs[bJob]

\* Every document of the batch is valid and nothing fails while it is
\* processed.
AllValid ==
    /\ ValidUserId(bUser)
    /\ \A i \in 1..Len(bDocs) :
          bDocs[i].content = "text" /\ bDocs[i].fault = "none"

\* C4 (as stated): when every document of the batch is valid and neither
\* the database nor the embedder fails, process_batch ends with the job
\* completed, processed = total, and every document stored with at least
\* one chunk, each chunk with an embedding.
C4_Original ==
    (bPc = "done" /\ AllValid) =>
        /\ BatchJob.status = "completed"
        /\ Processed(BatchJob) = BatchJob.total_documents
        /\ \A i \in 1..Len(bDocs) :
              \E d \in documents :
                  d.id = i /\ d.chunks >= 1 /\ d.embeddings = d.chunks

\* C5: process_batch calls process_document for every document of the
\* batch in input order whichever of them fail, goes on to complete_job,
\* and then processed + failed = total and errors has one entry per failed
\* document.
C5_BatchRunsToCompletion ==
    /\ [](bPc = "done" =>
            /\ attempted = [i \in 1..Len(bDocs) |-> i]
            /\ Processed(BatchJob) + Failed(BatchJob) = BatchJob.total_documents
            /\ Len(BatchJob.errors) = Failed(BatchJob))
    /\ (bPc = "created") ~> (bPc = "done")

C5_Witness ==
    /\ bPc = "done"
    /\ Len(bDocs) = 2
    /\ bDocs[1].content = "empty"
    /\ attempted = <<1, 2>>
    /\ Failed(BatchJob) = 2

\* C6: every job with total > 0 has processed + failed <= total and a
\* progress_percent within 1 of 100 * (processed + failed) / total.
C6_ProgressMatchesCounters ==
    \A jid \in DOMAIN jobs :
        LET j == jobs[jid]
            done == Processed(j) + Failed(j)
            num == j.progress_percent[1]
            den == j.progress_percent[2]
            diff == num * j.total_documents - 100 * done * den
        IN  j.total_documents > 0 =>
                /\ done <= j.total_documents
                /\ diff <= den * j.total_documents
                /\ -diff <= den * j.total_documents

C6_Witness ==
    /\ bPc = "loop"
    /\ BatchJob.total_documents = 2
    /\ Failed(BatchJob) = 1
    /\ BatchJob.progress_percent = <<100, 2>>

\* C7 (as stated): complete_job sets completed exactly when every document
\* succeeded (none failed), partial exactly when at least one succeeded
\* and at least one failed, failed exactly when none succeeded.
C7_Original ==
    bPc = "done" =>
        /\ (BatchJob.status = "completed") <=> (Failed(BatchJob) = 0)
        /\ (BatchJob.status = "partial") <=>
              (Processed(BatchJob) > 0 /\ Failed(BatchJob) > 0)
        /\ (BatchJob.status = "failed") <=> (Processed(BatchJob) = 0)

\* C7 (amended): complete_job sets completed exactly when no document
\* failed, partial exactly when at least one succeeded and at least one
\* failed, failed exactly when none succeeded and at least one failed.
C7_CompleteJobStatus ==
    bPc = "done" =>
        /\ (BatchJob.status = "completed") <=> (Failed(BatchJob) = 0)
        /\ (BatchJob.status = "partial") <=>
              (Processed(BatchJob) > 0 /\ Failed(BatchJob) > 0)
        /\ (BatchJob.status = "failed") <=>
              (Processed(BatchJob) = 0 /\ Failed(BatchJob) > 0)

C7_Witness ==
    /\ bPc = "done"
    /\ BatchJob.status = "partial"
    /\ Processed(BatchJob) = 2
    /\ Failed(BatchJob) = 1

\* C8 (as stated): a job whose status is terminal has completed_at set, and
\* no later step changes its status, counters or errors.
C8_Original ==
    /\ [](\A jid \in DOMAIN jobs :
            Terminal(jobs[jid].status) => jobs[jid].completed_at # NoneTime)
    /\ [][\A jid \in DOMAIN jobs :
            Terminal(jobs[jid].status) =>
                /\ jobs'[jid].status = jobs[jid].status
                /\ Processed(jobs'[jid]) = Processed(jobs[jid])
                /\ Failed(jobs'[jid]) = Failed(jobs[jid])
                /\ jobs'[jid].errors = jobs[jid].errors]_vars

\* C9 (as stated): cancel_ingestion on a job it finds queued or processing
\* returns success = true, and the row it writes has status cancelled and
\* the caller's id.
C9_Original ==
    /\ [](cSeen \in {"queued", "processing"} => cResult.success)
    /\ [][(cPc = "dirty" /\ cPc' = "done") =>
            /\ jobs'[cJob].status = "cancelled"
            /\ jobs'[cJob].errors = << <<"Cancelled by user", cUser>> >>]_vars

C11_Original ==
    /\ []((cPc = "done" /\ cSeen = "completed") =>
            cResult = [success |-> FALSE,
                       message |-> <<"Cannot cancel job in", "completed", "state">>])
    /\ [][(cPc # "done" /\ cPc' = "done" /\ ~cResult'.success
              /\ cJob' \in DOMAIN jobs) =>
            jobs'[cJob'] = jobs[cJob']]_vars

--------------------------------------------------------------------------
(* Claims about resources (SpecResource) *)

\* C12: after any sequence of AddResource and DeleteResource calls by any
\* users, list_resources(user_A) returns no resource of a different user.
C12_ListIsolation ==
    \A d \in listed.items : d.user_id = listed.user_id

C12_Witness ==
    /\ listed.user_id = "u1"
    /\ listed.items # {}
    /\ \E d \in documents : d.user_id = "u2"
    /\ DOMAIN jobs # {}
    /\ delResult.success

--------------------------------------------------------------------------
(* Claims about conversations (SpecChat) *)

\* C14 (as stated): a chat turn reuses a provided conversation id that
\* exists and is owned by the caller, creates the conversation with a
\* provided id that does not exist, and in every other case (no id, an id
\* owned by another user) creates a new conversation for the caller and
\* records the turn there; a turn is never recorded in a conversation of
\* another user.
C14_Original ==
    /\ [][(clock' = clock + 1) =>
            /\ chPc' = "conv"
            /\ conversations'[chConv'] = chUser'
            /\ IF chArg' \in ConvIds /\ conversations[chArg'] = chUser'
               THEN chConv' = chArg' /\ conversations' = conversations
               ELSE IF chArg' \in ConvIds /\ conversations[chArg'] = NoUser
               THEN chConv' = chArg'
               ELSE chConv' # chArg' /\ conversations[chConv'] = NoUser]_vars
    /\ [](chPc \in {"conv", "user_saved", "generated", "committed", "done"} =>
            conversations[chConv] = chUser)

\* The rows of the resolved conversation stored before this turn's user
\* message.
PriorRows == {i \in ConvRows(messages, chConv) : i <= chPrior}

\* C15 (as stated): the history send_message passes to the pipeline is
\* exactly the messages stored before this turn's user message, in order,
\* without the just-appended user message.
C15_Original ==
    chPc \in {"generated", "committed", "done"} =>
        /\ Len(chHistory) = Cardinality(PriorRows)
        /\ \A i \in 1..Len(chHistory) : chHistory[i] \in PriorRows
        /\ \A i, j \in 1..Len(chHistory) :
              i < j => chHistory[i] < chHistory[j]

--------------------------------------------------------------------------
(* Claims about StreamChat (SpecStreamChat) *)

Finals(chunks) == {i \in 1..Len(chunks) : chunks[i].is_final}

StreamOver == scPc \in {"done", "ended"}

C17_Original ==
    \A i \in 1..Len(out) : out[i].conversation_id = scConv

\* The tokens sent to the client, in order.
TokensSent ==
    LET toks == SelectSeq(out, LAMBDA c : c.kind = "token")
    IN  [i \in 1..Len(toks) |-> toks[i].token]

\* An assistant message of the turn made at time t is stored.
AssistantStored(t) ==
    \E i \in 1..Len(messages) :
        messages[i].role = "assistant" /\ messages[i].created_at = t

\* C18 (as stated): once stream_chat has yielded its final metrics chunk,
\* an assistant message of the turn is eventually stored, and its content
\* is the tokens emitted, in order.
C18_Original ==
    /\ \A t \in 1..MaxCalls :
          (scPc = "final" /\ clock = t) ~> AssistantStored(t)
    /\ [](\A i \in 1..Len(messages) :
            (messages[i].role = "assistant" /\ messages[i].created_at = clock)
                => messages[i].content = TokensSent)

\* The deadline has passed with the stream in progress: retrieval is over
\* and a chunk is still to be sent.
ExpiredMidStream ==
    /\ scExpired
    /\ \/ pending # <<>>
       \/ scPc = "streaming" /\ sPc \in {"stream", "done"}

C20_Original ==
    (scPc = "done" /\ llm_failed) =>
        \E i \in 1..Len(out) :
            /\ out[i].kind = "error"
            /\ out[i].code = ClassifyError(llm_error)
            /\ out[i].msg = llm_error

--------------------------------------------------------------------------
(* Claims about the user memory (SpecMemory) *)

\* The rows of a user in a user_memories table.
RowsOf(table, user) == {r \in table : r.user_id = user}

\* The step in which a turn's memory update is applied.
MemoryStep == memPc = "read" /\ memPc' = "done"

\* C21: after a chat turn the user's memory row is deleted if the extractor
\* signalled FORGET_ALL (it returned False), replaced by the returned text
\* if it returned a non-empty string, and left as it was if it signalled
\* NO_UPDATE or failed (it returned None); no other user's row is touched.
C21_MemoryUpdateEffect ==
    [][MemoryStep =>
        /\ (updated_memory' = PyFalse \/ llm_output' = PyStr(<<ForgetLine>>))
              => RowsOf(memories', memUser) = {}
        /\ Truthy(updated_memory')
              => RowsOf(memories', memUser) =
                    {[user_id |-> memUser, memory |-> updated_memory'.lines]}
        /\ (\/ updated_memory' = PyNone
            \/ llm_output' = PyStr(<<NoUpdateLine>>)
            \/ llm_output' = LLMRaised)
              => RowsOf(memories', memUser) = RowsOf(memories, memUser)
        /\ \A u \in Users \ {memUser} :
              RowsOf(memories', u) = RowsOf(memories, u)]_vars

\* A turn deleted the user's row while another user's row was stored.
C21_Witness ==
    /\ memPc = "done"
    /\ updated_memory = PyFalse
    /\ Truthy(user_memory)
    /\ RowsOf(memories, memUser) = {}
    /\ \E r \in memories : r.user_id # memUser

\* No line occurs twice in a text.
NoRepeatedLine(text) ==
    \A i, j \in 1..Len(text) : text[i] = text[j] => i = j

\* C22: after any sequence of chat turns there is at most one UserMemory
\* row per user, and its content never contains the same line twice.
C22_Original ==
    /\ \A u \in Users : Cardinality(RowsOf(memories, u)) <= 1
    /\ \A r \in memories : NoRepeatedLine(r.memory)

--------------------------------------------------------------------------
(* Claims about failed documents (SpecBatch) *)

--------------------------------------------------------------------------
(* Claims about the chunker (SpecChunker) *)

\* C24: for every stored document with n chunks, the chunk_index values of
\* its chunks are exactly 0, 1, ..., n-1, each occurring exactly once.
C24_ChunkIndexesDense ==
    LET rows == CreateChunks(tcChunks)
        n == Len(rows)
    IN  /\ {rows[i].chunk_index : i \in 1..n} = 0..(n - 1)
        /\ \A i, j \in 1..n : rows[i].chunk_index = rows[j].chunk_index => i = j

\* chunk() returned three chunks or more.
C24_Witness == tcPc = "done" /\ Len(tcChunks) >= 3

\* C25: for every input text and every valid (chunk_size, chunk_overlap),
\* no chunk produced by TextChunker.chunk is longer than
\* chunk_size + chunk_overlap.
C25_Original ==
    \A i \in 1..Len(tcChunks) :
        tcChunks[i].length <= chunk_size + chunk_overlap

\* The pieces of the input text, and the pieces found in the chunks.
InputPieces == UNION {{parts[p][k] : k \in 1..Len(parts[p])} : p \in 1..Len(parts)}
ChunkPieces ==
    UNION {{tcChunks[i].content[k] : k \in 1..Len(tcChunks[i].content)}
              : i \in 1..Len(tcChunks)}

\* C26: the chunks of a text, taken in index order without the overlap each
\* shares with its neighbour, reconstruct the input up to whitespace: no
\* sentence or paragraph of the input is missing from the chunks.
C26_Original == tcPc = "done" => InputPieces \subseteq ChunkPieces

--------------------------------------------------------------------------
(* Claims about chunked uploads (SpecUpload) *)

\* The step is a turn of the loop over the frames.
LoopTurn == upPc = "receiving" /\ upFrame' # NoFrame
\* The step is the validation after the loop.
ValidationStep ==
    upPc \in {"receiving", "complete"} /\ upPc' = "returned" /\ upFrame' = NoFrame

\* The frame breaks the protocol when `received` frames were accepted: the
\* first frame carries no metadata, or a data frame has another index.
BreaksOrder(frame, received) ==
    \/ received = 0 /\ frame.kind # "metadata"
    \/ received > 0 /\ frame.kind = "data" /\ frame.chunk_index # received

NothingCreated ==
    /\ ~upAdded'
    /\ jobs' = jobs
    /\ documents' = documents

\* C27 as stated: the first frame must carry metadata and every data
\* frame's chunk_index must equal the number of frames accepted so far; at
\* the first frame that violates this the upload is rejected with
\* INVALID_ARGUMENT and no resource is created.
C27_Original ==
    [][(LoopTurn /\ BreaksOrder(upFrame', chunks_received)) =>
          /\ upPc' = "returned"
          /\ upCode' = "INVALID_ARGUMENT"
          /\ NothingCreated]_vars

\* C27 as amended: such a frame ends the upload and no resource is created;
\* the status is INVALID_ARGUMENT unless the deadline has passed at a turn
\* where it is checked, and then DEADLINE_EXCEEDED.  Every frame accepted
\* is the metadata frame first and then data frames numbered by the count.
C27_OrderEnforced ==
    /\ [][(LoopTurn /\ BreaksOrder(upFrame', chunks_received)) =>
            /\ upPc' = "returned"
            /\ upCode' = IF chunks_received % DeadlineCheckEvery = 0 /\ upExpired'
                         THEN "DEADLINE_EXCEEDED" ELSE "INVALID_ARGUMENT"
            /\ NothingCreated]_vars
    /\ [][(LoopTurn /\ chunks_received' = chunks_received + 1) =>
            IF chunks_received = 0
            THEN upFrame'.kind = "metadata"
            ELSE upFrame'.kind = "data" /\ upFrame'.chunk_index = chunks_received]_vars

\* A data frame with the wrong index was rejected after two frames had
\* been accepted.
C27_Witness ==
    /\ upPc = "returned"
    /\ upCode = "INVALID_ARGUMENT"
    /\ chunks_received = 2
    /\ upFrame.kind = "data"
    /\ upFrame.chunk_index # chunks_received
    /\ ~upAdded

\* The received bytes are not the declared number, or a checksum was
\* supplied and the digest of the received bytes is another one.
SizeMismatch == metadata.present /\ total_bytes # metadata.total_size
ChecksumMismatch ==
    /\ metadata.present
    /\ total_bytes = metadata.total_size
    /\ metadata.checksum # NoChecksum
    /\ computed_checksum' # metadata.checksum

C29_Original ==
    /\ total_bytes <= MAX_CHUNKED_FILE_SIZE
    /\ (upFrame.kind = "data" /\ upPc # "returned") => upFrame.len <= MAX_CHUNK_SIZE

--------------------------------------------------------------------------
(* Claims about reading a conversation page by page (SpecPages) *)

\* C30: a page holds at most `limit` messages from the cursor's offset and
\* next_cursor is str(offset + limit) exactly when a further message
\* exists, and a client that follows next_cursor from the first page has,
\* when it is given no further cursor, visited every message of the
\* conversation exactly once, in the order of created_at.
C30_Original ==
    (pgPc \in {"paging", "done"} /\ ConvOwner(conversations, pgConv) = pgUser) =>
        LET rows == ConvRows(messages, pgConv)
            offset == CursorOffset(pgAsked)
            further == Cardinality(rows) > offset + pgLimit
        IN  /\ Len(pgPage.messages) <= pgLimit
            /\ pgPage.next_cursor = IF further THEN Str(offset + pgLimit)
                                    ELSE NoCursor
            /\ pgPc = "done" => pgVisited \in OrderedByCreatedAt(messages, rows)

\* The rows and the owner of the conversation asked for are not in the
\* response.
NothingRevealed == pgPage = EmptyConversationResponse /\ pgVisited = <<>>

\* C31: GetConversation reports NOT_FOUND for a conversation that does not
\* exist and PERMISSION_DENIED for one owned by another user, and in
\* neither case returns any of that conversation's messages or metadata.
C31_Original ==
    pgPc \in {"paging", "done"} =>
        LET owner == ConvOwner(conversations, pgConv)
        IN  /\ owner = NoUser => (pgCode = "NOT_FOUND" /\ NothingRevealed)
            /\ owner \notin {NoUser, pgUser} =>
                  (pgCode = "PERMISSION_DENIED" /\ NothingRevealed)

--------------------------------------------------------------------------
(* Claims about the transaction of send_message (SpecChat) *)

\* C32: a send_message call is one transaction: if it fails at any step
\* (conversation resolution, generation, persistence or memory update),
\* neither a conversation it created nor a message it added remains
\* stored.
C32_Original ==
    chPc = "raised" =>
        /\ Len(messages) = chPrior
        /\ chCreated => conversations[chConv] = NoUser

--------------------------------------------------------------------------
(* Claims about GetResourceStatus (SpecStatus) *)

\* The job and the document the last call named, when owned by a user
\* other than the caller.
ForeignJob ==
    {j \in GetJob(jobs, stCall.job_id) : j.user_id # stCall.user_id}
ForeignDocument ==
    {d \in GetDocument(documents, stCall.resource_id) : d.user_id # stCall.user_id}

\* C33: get_resource_status called with a non-empty user_id never returns
\* the status, progress, error text or chunk count of a job or document
\* owned by a different user, whichever combination of job_id and
\* resource_id is supplied.
C33_Original ==
    (stResponse.status # "none" /\ stCall.user_id # EmptyUser) =>
        /\ ForeignJob # {} =>
              /\ stResponse.status \in {"UNSPECIFIED", "FAILED"}
              /\ stResponse.progress = <<0, 1>>
              /\ stResponse.error \in {NoError, AccessDeniedJob}
        /\ ForeignDocument # {} => stResponse.chunks_created = 0

--------------------------------------------------------------------------
(* Claims about overlapping chat turns (SpecOverlap) *)

\* The lines of the user's stored memory.
StoredLines ==
    UNION {LineSet(r.memory) : r \in RowsOf(memories, OverlapUser)}

\* C34: when two chat turns of the same user overlap in time and neither
\* signals FORGET_ALL, the user's memory after both have finished contains
\* every line it held before and every line extracted by either turn.
C34_Original ==
    (/\ \A t \in OverlapTurns : ovPc[t] = "done" /\ ~ovForgot[t]
     /\ ovOverlapped) =>
        /\ ovBefore \subseteq StoredLines
        /\ \A t \in OverlapTurns : ovExtracted[t] \subseteq StoredLines

--------------------------------------------------------------------------
(* Claims about the owner of a cancelled job (Spec) *)

\* The cancel_ingestion call in progress names a job of another user.
CancelByStranger == cJob \in DOMAIN jobs /\ jobs[cJob].user_id # cUser

\* C35: cancel_ingestion called with a user_id that is not the job's owner
\* returns success = false and does not change the job.
C35_Original ==
    /\ []((cPc = "done" /\ CancelByStranger) => ~cResult.success)
    /\ [][(cPc = "dirty" /\ cPc' = "done" /\ CancelByStranger) =>
             jobs'[cJob] = jobs[cJob]]_vars

--------------------------------------------------------------------------
(* Claims about the user message of a streamed turn (SpecStreamChat) *)

\* The user message of the StreamChat call is stored in its conversation.
UserMessageStored ==
    \E i \in 1..Len(messages) :
        /\ messages[i].conv = scConv
        /\ messages[i].role = "user"
        /\ messages[i].created_at = clock

\* A chunk was delivered before the chunk that ends the stream.
DeliveredThenEnded == StreamOver /\ Len(out) >= 2

\* C36: whenever a StreamChat stream has delivered at least one chunk and
\* then ends (with the final metrics, an LLM error chunk or a
\* DEADLINE_EXCEEDED chunk), the turn's user message is stored in the
\* conversation.
C36_Original == DeliveredThenEnded => UserMessageStored

--------------------------------------------------------------------------
(* Claims about retry_async (SpecRetry) *)

\* The call was made with the default max_retries.
DefaultCall == rtPc # "idle" /\ max_retries = DefaultMaxRetries

\* C37 (as stated): with default settings retry_async invokes the wrapped
\* operation at most 3 times in total, for any sequence of failures.
C37_Original == DefaultCall => rtCalls <= 3

\* C37 (amended): with default settings retry_async invokes the wrapped
\* operation at most max_retries + 1 = 4 times in total: the first attempt
\* and up to three retries.
C37_FirstAttemptAndRetries == DefaultCall => rtCalls <= DefaultMaxRetries + 1

\* A default call gave up after invoking the operation four times.
C37_Witness ==
    /\ DefaultCall
    /\ rtPc = "raised"
    /\ rtOutcome.error.type = "RetryError"
    /\ rtCalls = DefaultMaxRetries + 1

\* The step is an invocation of func that raised.
InvocationRaised == rtCalls' = rtCalls + 1 /\ last_exception'.raised_at = rtCalls

\* The step is an invocation of func that returned.
InvocationReturned == rtCalls' = rtCalls + 1 /\ last_exception' = last_exception

\* What the caller gets is exactly the error instance e.
RaisedUnchanged(outcome, e) == outcome = [kind |-> "raised", error |-> e]

\* C38: retry_async re-invokes the operation only after a retriable error;
\* a non-retriable error is raised to the caller after that attempt,
\* unchanged; a success on any attempt is returned with no further
\* invocation; and when every attempt failed with a retriable error the
\* caller gets a RetryError whose cause is the last error.
C38_RetryDiscipline ==
    /\ [][(rtCalls' > rtCalls /\ rtCalls > 0) =>
             /\ last_exception.raised_at = rtCalls - 1
             /\ is_retriable_error(last_exception)]_vars
    /\ [][(InvocationRaised /\ ~is_retriable_error(last_exception')) =>
             /\ rtPc' = "raised"
             /\ RaisedUnchanged(rtOutcome', last_exception')]_vars
    /\ [][InvocationReturned =>
             /\ rtPc' = "returned"
             /\ rtOutcome'.kind = "returned"]_vars
    /\ [][(rtPc \in {"returned", "raised"}) => rtCalls' = rtCalls]_vars
    /\ [][(InvocationRaised /\ is_retriable_error(last_exception')
            /\ rtCalls' = max_retries + 1) =>
             /\ rtPc' = "raised"
             /\ rtOutcome'.error.type = "RetryError"
             /\ rtOutcome'.error.cause = last_exception'
             /\ rtOutcome'.error.cause.raised_at = rtCalls' - 1]_vars

\* Two retriable failures used up a call with max_retries = 1, and the
\* caller holds a RetryError caused by the second.
C38_Witness ==
    /\ rtPc = "raised"
    /\ max_retries = 1
    /\ rtCalls = 2
    /\ rtOutcome.error.type = "RetryError"
    /\ rtOutcome.error.cause.raised_at = 1

--------------------------------------------------------------------------
(* Claims about the query-embedding cache (SpecCache) *)

\* C39: under any interleaving of concurrent encode_query calls running on
\* worker threads, the query-embedding cache never holds more than
\* cache_size entries.
C39_Original == Cardinality(DOMAIN cache) <= CacheSize

--------------------------------------------------------------------------
(* Claims about WebCrawler.crawl (SpecCrawl) *)

NoUrlRequestedTwice == \A u \in AllUrls : requests[u] <= 1

NoUrlReturnedTwice ==
    \A i, j \in 1..Len(pages) : pages[i].url = pages[j].url => i = j

\* C40: during one crawl, for any link graph and any sitemap, no URL is
\* requested more than once and no URL appears twice in the returned pages.
C40_Original == NoUrlRequestedTwice /\ NoUrlReturnedTwice

====
